---------------------------- MODULE Spec2Model ----------------------------
(***************************************************************************)
(* A model of the serialized geometry codec of liblwgeom                   *)
(* (g_serialized.c, lwutil.c): the encoder, the decoder, the SRID header   *)
(* codec and the comparator, at the level of the bytes of a record.        *)
(*                                                                         *)
(* Memory is modelled as bytes (0..255) in little-endian host order.  A    *)
(* double is the tuple of its 8 bytes, a float the tuple of its 4 bytes,   *)
(* so that memcpy is a copy of bytes and memcmp a comparison of bytes.     *)
(***************************************************************************)
EXTENDS Integers, Sequences, FiniteSets, TLC

(***************************************************************************)
(* Powers of two and small helpers.                                        *)
(***************************************************************************)
RECURSIVE Pow2(_)
Pow2(n) == IF n = 0 THEN 1 ELSE 2 * Pow2(n - 1)

Max2(a, b) == IF a > b THEN a ELSE b

Min2(a, b) == IF a < b THEN a ELSE b

RECURSIVE Concat(_)
\* The concatenation of a sequence of byte sequences.
Concat(ss) == IF ss = <<>> THEN <<>> ELSE Head(ss) \o Concat(Tail(ss))

RECURSIVE SumSeq(_)
SumSeq(s) == IF s = <<>> THEN 0 ELSE Head(s) + SumSeq(Tail(s))

\* bytes[off+1 .. off+n] of a byte sequence (off is a 0-based byte offset).
Slice(bytes, off, n) == SubSeq(bytes, off + 1, off + n)

(***************************************************************************)
(* 32-bit words in memory (memcpy of a uint32_t, little-endian).           *)
(***************************************************************************)
U32Bytes(n) ==
    << n % 256, (n \div 256) % 256, (n \div 65536) % 256, (n \div 16777216) % 256 >>

U32Value(b) == b[1] + 256 * b[2] + 65536 * b[3] + 16777216 * b[4]

(***************************************************************************)
(* IEEE-754 binary64 and binary32 values, by their fields.                 *)
(*   double: s (1 bit), e (11 bits), mh (top 23 mantissa bits),            *)
(*           ml (low 29 mantissa bits)                                     *)
(*   float:  s (1 bit), e (8 bits), m (23 bits)                            *)
(***************************************************************************)
DFields(b) ==
    [s  |-> b[8] \div 128,
     e  |-> (b[8] % 128) * 16 + (b[7] \div 16),
     mh |-> (b[7] % 16) * 524288 + b[6] * 2048 + b[5] * 8 + (b[4] \div 32),
     ml |-> (b[4] % 32) * 16777216 + b[3] * 65536 + b[2] * 256 + b[1]]

DBytes(d) ==
    << d.ml % 256,
       (d.ml \div 256) % 256,
       (d.ml \div 65536) % 256,
       (d.mh % 8) * 32 + (d.ml \div 16777216),
       (d.mh \div 8) % 256,
       (d.mh \div 2048) % 256,
       (d.e % 16) * 16 + (d.mh \div 524288),
       d.s * 128 + (d.e \div 16) >>

FFields(b) ==
    [s |-> b[4] \div 128,
     e |-> (b[4] % 128) * 2 + (b[3] \div 128),
     m |-> (b[3] % 128) * 65536 + b[2] * 256 + b[1]]

FBytes(f) ==
    << f.m % 256,
       (f.m \div 256) % 256,
       (f.e % 2) * 128 + (f.m \div 65536),
       f.s * 128 + (f.e \div 2) >>

DIsNaN(d) == d.e = 2047 /\ (d.mh # 0 \/ d.ml # 0)

DIsZero(d) == d.e = 0 /\ d.mh = 0 /\ d.ml = 0

\* The order of two magnitudes (e, mh, ml): -1, 0 or 1.
DMagCmp(a, b) ==
    IF a.e # b.e THEN (IF a.e < b.e THEN -1 ELSE 1)
    ELSE IF a.mh # b.mh THEN (IF a.mh < b.mh THEN -1 ELSE 1)
    ELSE IF a.ml # b.ml THEN (IF a.ml < b.ml THEN -1 ELSE 1)
    ELSE 0

\* The C comparison a < b of two doubles given by their bytes.
DLess(x, y) ==
    LET a == DFields(x)
        b == DFields(y)
    IN  IF DIsNaN(a) \/ DIsNaN(b) THEN FALSE
        ELSE IF DIsZero(a) /\ DIsZero(b) THEN FALSE
        ELSE IF a.s # b.s THEN a.s = 1
        ELSE IF a.s = 0 THEN DMagCmp(a, b) < 0
        ELSE DMagCmp(a, b) > 0

\* The C comparison a <= b.
DLessEq(x, y) ==
    LET a == DFields(x)
        b == DFields(y)
    IN  IF DIsNaN(a) \/ DIsNaN(b) THEN FALSE
        ELSE ~DLess(y, x)

\* (double)f for a float f: exact.
F2D(fb) ==
    LET f == FFields(fb)
    IN  IF f.e = 255 THEN DBytes([s |-> f.s, e |-> 2047, mh |-> f.m, ml |-> 0])
        ELSE IF f.e = 0 /\ f.m = 0 THEN DBytes([s |-> f.s, e |-> 0, mh |-> 0, ml |-> 0])
        ELSE IF f.e = 0 THEN
            LET k == CHOOSE i \in 0..22 : Pow2(i) <= f.m /\ f.m < Pow2(i + 1)
            IN  DBytes([s |-> f.s, e |-> k + 874,
                        mh |-> (f.m - Pow2(k)) * Pow2(23 - k), ml |-> 0])
        ELSE DBytes([s |-> f.s, e |-> f.e + 896, mh |-> f.m, ml |-> 0])

\* (float)d for a double d: round to nearest, ties to even.
D2F(db) ==
    LET d == DFields(db)
        E == d.e - 896
    IN  IF d.e = 2047 THEN
            FBytes([s |-> d.s, e |-> 255,
                    m |-> IF d.mh = 0 /\ d.ml = 0 THEN 0
                          ELSE IF d.mh >= 4194304 THEN d.mh ELSE d.mh + 4194304])
        ELSE IF E >= 255 THEN FBytes([s |-> d.s, e |-> 255, m |-> 0])
        ELSE IF E >= 1 THEN
            LET up == d.ml > 268435456 \/ (d.ml = 268435456 /\ d.mh % 2 = 1)
                k  == E * 8388608 + d.mh + (IF up THEN 1 ELSE 0)
            IN  IF k >= 255 * 8388608 THEN FBytes([s |-> d.s, e |-> 255, m |-> 0])
                ELSE FBytes([s |-> d.s, e |-> k \div 8388608, m |-> k % 8388608])
        ELSE IF 1 - E >= 25 THEN FBytes([s |-> d.s, e |-> 0, m |-> 0])
        ELSE
            LET sig   == 8388608 + d.mh
                shift == 1 - E
                q     == sig \div Pow2(shift)
                r     == sig % Pow2(shift)
                half  == Pow2(shift - 1)
                up    == r > half \/ (r = half /\ (d.ml # 0 \/ q % 2 = 1))
                k     == q + (IF up THEN 1 ELSE 0)
            IN  FBytes([s |-> d.s, e |-> k \div 8388608, m |-> k % 8388608])

\* nextafterf(f, -infinity) and nextafterf(f, +infinity) of a float that is not NaN.
FPrev(fb) ==
    LET f == FFields(fb)
        k == f.e * 8388608 + f.m
    IN  IF f.s = 0 /\ k = 0 THEN FBytes([s |-> 1, e |-> 0, m |-> 1])
        ELSE IF f.s = 0 THEN FBytes([s |-> 0, e |-> (k - 1) \div 8388608, m |-> (k - 1) % 8388608])
        ELSE IF k = 255 * 8388608 THEN fb
        ELSE FBytes([s |-> 1, e |-> (k + 1) \div 8388608, m |-> (k + 1) % 8388608])

FNext(fb) ==
    LET f == FFields(fb)
        k == f.e * 8388608 + f.m
    IN  IF f.s = 1 /\ k = 0 THEN FBytes([s |-> 0, e |-> 0, m |-> 1])
        ELSE IF f.s = 1 THEN FBytes([s |-> 1, e |-> (k - 1) \div 8388608, m |-> (k - 1) % 8388608])
        ELSE IF k = 255 * 8388608 THEN fb
        ELSE FBytes([s |-> 0, e |-> (k + 1) \div 8388608, m |-> (k + 1) % 8388608])

\* f, the float nearest to d, when f <= d; else the float before f.
FloatNotAbove(db, f) ==
    IF DIsNaN(DFields(db)) THEN f
    ELSE IF DLessEq(F2D(f), db) THEN f
    ELSE FPrev(f)

\* f, the float nearest to d, when f >= d; else the float after f.
FloatNotBelow(db, f) ==
    IF DIsNaN(DFields(db)) THEN f
    ELSE IF DLessEq(db, F2D(f)) THEN f
    ELSE FNext(f)

\* The largest float <= d.
next_float_down(db) == FloatNotAbove(db, D2F(db))

\* The smallest float >= d.
next_float_up(db) == FloatNotBelow(db, D2F(db))

\* 2.0 * d in double arithmetic.
DTimes2(db) ==
    LET d == DFields(db)
    IN  IF d.e = 2047 THEN db
        ELSE IF d.e = 0 THEN
            LET lo == 2 * d.ml
                hi == 2 * d.mh + (lo \div 536870912)
            IN  DBytes([s |-> d.s, e |-> hi \div 8388608,
                        mh |-> hi % 8388608, ml |-> lo % 536870912])
        ELSE IF d.e = 2046 THEN DBytes([s |-> d.s, e |-> 2047, mh |-> 0, ml |-> 0])
        ELSE DBytes([s |-> d.s, e |-> d.e + 1, mh |-> d.mh, ml |-> d.ml])

\* The significand (with the implicit bit) and the exponent of a finite float.
FSig(f) == IF f.e = 0 THEN f.m ELSE 8388608 + f.m

FExp(f) == IF f.e = 0 THEN 1 ELSE f.e

\* x shifted right by n bits, the bits shifted out OR-ed into the lowest bit (sticky).
ShiftRightSticky(x, n) ==
    IF n >= 31 THEN (IF x # 0 THEN 1 ELSE 0)
    ELSE LET q == x \div Pow2(n)
             r == x % Pow2(n)
         IN  IF r # 0 /\ q % 2 = 0 THEN q + 1 ELSE q

\* The sum of FAdd packed: sig is the rounded significand (24 bits, or 25 after a
\* carry), ex its exponent.
FAddPacked(s, sig, ex) ==
    LET sig2 == IF sig >= 16777216 THEN sig \div 2 ELSE sig
        ex3  == IF sig >= 16777216 THEN ex + 1 ELSE ex
    IN  IF sig2 < 8388608 THEN FBytes([s |-> s, e |-> 0, m |-> sig2])
        ELSE IF ex3 >= 255 THEN FBytes([s |-> s, e |-> 255, m |-> 0])
        ELSE FBytes([s |-> s, e |-> ex3, m |-> sig2 - 8388608])

\* The sum of FAdd rounded to nearest, ties to even: R2 is the normalized significand
\* with its three extra bits (guard, round, sticky).
FAddRounded(s, R2, ex2) ==
    FAddPacked(s, (R2 \div 8) + (IF R2 % 8 > 4 \/ (R2 % 8 = 4 /\ (R2 \div 8) % 2 = 1)
                                 THEN 1 ELSE 0),
               ex2)

\* The sum of FAdd normalized: R1 shifted left until its top bit is in place or the
\* exponent reaches that of the subnormals.
FAddNormalized(s, R1, ex1) ==
    LET up == CHOOSE k \in 0..27 :
                 /\ k <= ex1 - 1
                 /\ (R1 * Pow2(k) >= 67108864 \/ k = ex1 - 1)
                 /\ \A j \in 0..(k - 1) : R1 * Pow2(j) < 67108864
    IN  FAddRounded(s, R1 * Pow2(up), ex1 - up)

\* The exact sum R (with three extra bits) of FAdd at exponent ex: zero, or brought
\* back to 27 bits after a carry.
FAddExact(zs, s, R, ex) ==
    IF R = 0 THEN FBytes([s |-> zs, e |-> 0, m |-> 0])
    ELSE IF R >= 134217728 THEN FAddNormalized(s, ShiftRightSticky(R, 1), ex + 1)
    ELSE FAddNormalized(s, R, ex)

\* FAdd of two finite floats, big the one of the larger magnitude.
FAddOrdered(big, small) ==
    FAddExact(IF big.s = small.s THEN big.s ELSE 0, big.s,
              FSig(big) * 8 + (IF big.s = small.s THEN 1 ELSE -1)
                              * ShiftRightSticky(FSig(small) * 8, FExp(big) - FExp(small)),
              FExp(big))

\* FAdd on the fields a and b of the floats ab and bb.
FAddFields(ab, bb, a, b) ==
    IF a.e = 255 \/ b.e = 255 THEN
        IF a.e = 255 /\ a.m # 0 THEN ab
        ELSE IF b.e = 255 /\ b.m # 0 THEN bb
        ELSE IF a.e = 255 /\ b.e = 255 /\ a.s # b.s
             THEN FBytes([s |-> 1, e |-> 255, m |-> 4194304])
        ELSE IF a.e = 255 THEN ab ELSE bb
    ELSE IF FExp(a) > FExp(b) \/ (FExp(a) = FExp(b) /\ FSig(a) >= FSig(b))
         THEN FAddOrdered(a, b)
    ELSE FAddOrdered(b, a)

\* a + b of two floats, rounded to nearest (ties to even): the classic adder with
\* guard, round and sticky bits.
FAdd(ab, bb) == FAddFields(ab, bb, FFields(ab), FFields(bb))

\* (float)(a + b) for two doubles that are exactly floats (every ordinate of a box
\* that gserialized_get_gbox_p returns is one): the double sum of two floats is
\* exact or rounds as the float sum does.
DSumToFloat(da, db) == FAdd(D2F(da), D2F(db))

(***************************************************************************)
(* Type tags, SRID limits and the flag byte (liblwgeom.h).                 *)
(***************************************************************************)
POINTTYPE == 1

LINETYPE == 2

POLYGONTYPE == 3

MULTIPOINTTYPE == 4

MULTILINETYPE == 5

MULTIPOLYGONTYPE == 6

COLLECTIONTYPE == 7

CIRCSTRINGTYPE == 8

COMPOUNDTYPE == 9

CURVEPOLYTYPE == 10

MULTICURVETYPE == 11

MULTISURFACETYPE == 12

POLYHEDRALSURFACETYPE == 13

TRIANGLETYPE == 14

TINTYPE == 15

SRID_UNKNOWN == 0

SRID_MAXIMUM == 999999

SRID_USER_MAXIMUM == 998999

LW_SUCCESS == 1

LW_FAILURE == 0

FLAGS_GET_Z(flags) == flags % 2

FLAGS_GET_M(flags) == (flags \div 2) % 2

FLAGS_GET_BBOX(flags) == (flags \div 4) % 2

FLAGS_GET_GEODETIC(flags) == (flags \div 8) % 2

FLAGS_GET_ZM(flags) == FLAGS_GET_M(flags) + FLAGS_GET_Z(flags) * 2

FLAGS_NDIMS(flags) == 2 + FLAGS_GET_Z(flags) + FLAGS_GET_M(flags)

FLAGS_SET_BBOX(flags, value) == flags - 4 * FLAGS_GET_BBOX(flags) + 4 * value

\* gflags(hasz, hasm, 0) with the read-only bit set, as a view's point array has it.
ViewFlags(hasz, hasm) == hasz + 2 * hasm + 16

SIZE_GET(varsize) == varsize \div 4

LeafTypes == {POINTTYPE, LINETYPE, CIRCSTRINGTYPE, TRIANGLETYPE}

CollectionTypes ==
    {MULTIPOINTTYPE, MULTILINETYPE, MULTIPOLYGONTYPE, COLLECTIONTYPE, COMPOUNDTYPE,
     CURVEPOLYTYPE, MULTICURVETYPE, MULTISURFACETYPE, POLYHEDRALSURFACETYPE, TINTYPE}

lwcollection_allows_subtype(collectiontype, subtype) ==
    \/ collectiontype = COLLECTIONTYPE /\ subtype \in 1..15
    \/ collectiontype = MULTIPOINTTYPE /\ subtype = POINTTYPE
    \/ collectiontype = MULTILINETYPE /\ subtype = LINETYPE
    \/ collectiontype = MULTIPOLYGONTYPE /\ subtype = POLYGONTYPE
    \/ collectiontype = COMPOUNDTYPE /\ subtype \in {LINETYPE, CIRCSTRINGTYPE}
    \/ collectiontype = CURVEPOLYTYPE /\ subtype \in {CIRCSTRINGTYPE, LINETYPE, COMPOUNDTYPE}
    \/ collectiontype = MULTICURVETYPE /\ subtype \in {CIRCSTRINGTYPE, LINETYPE, COMPOUNDTYPE}
    \/ collectiontype = MULTISURFACETYPE /\ subtype \in {POLYGONTYPE, CURVEPOLYTYPE}
    \/ collectiontype = POLYHEDRALSURFACETYPE /\ subtype = POLYGONTYPE
    \/ collectiontype = TINTYPE /\ subtype = TRIANGLETYPE

(***************************************************************************)
(* The record header: size word, SRID bytes, flag byte (offsets 0, 4, 7).   *)
(***************************************************************************)
RecSize(rec) == SIZE_GET(U32Value(Slice(rec, 0, 4)))

RecFlags(rec) == rec[8]

RecSridBytes(rec) == Slice(rec, 4, 3)

\* A variant of clamp_srid that lets an SRID above SRID_MAXIMUM through.
clamp_srid_nofold(srid) == IF srid <= 0 THEN SRID_UNKNOWN ELSE srid

clamp_srid(srid) ==
    IF srid <= 0 THEN SRID_UNKNOWN
    ELSE IF srid > SRID_MAXIMUM
         THEN SRID_USER_MAXIMUM + 1 + (srid % (SRID_MAXIMUM - SRID_USER_MAXIMUM - 1))
    ELSE srid

gserialized_get_srid(rec) ==
    LET raw  == rec[5] * 65536 + rec[6] * 256 + rec[7]
        low  == raw % 2097152
        srid == IF low >= 1048576 THEN low - 2097152 ELSE low
    IN  IF srid = 0 THEN SRID_UNKNOWN ELSE srid

\* A variant of gserialized_set_srid that stores the SRID as given, unclamped.
gserialized_set_srid_unclamped(rec, srid) ==
    LET v == IF srid = SRID_UNKNOWN THEN 0 ELSE srid
    IN  [rec EXCEPT ![5] = (v \div 65536) % 32,
                    ![6] = (v \div 256) % 256,
                    ![7] = v % 256]

gserialized_set_srid(rec, srid) ==
    LET c == clamp_srid(srid)
        v == IF c = SRID_UNKNOWN THEN 0 ELSE c
    IN  [rec EXCEPT ![5] = (v \div 65536) % 32,
                    ![6] = (v \div 256) % 256,
                    ![7] = v % 256]

gserialized_cmp_srid(r1, r2) ==
    IF r1[5] = r2[5] /\ r1[6] = r2[6] /\ r1[7] = r2[7] THEN 0 ELSE 1

(***************************************************************************)
(* Bounding boxes.  A GBOX is [flags, xmin, xmax, ymin, ymax, zmin, zmax,  *)
(* mmin, mmax]; a field the code never assigned holds Unset.               *)
(***************************************************************************)
Unset == << >>

gbox_serialized_size(flags) ==
    IF FLAGS_GET_GEODETIC(flags) = 1 THEN 6 * 4 ELSE 2 * FLAGS_NDIMS(flags) * 4

gserialized1_box_size(rec) ==
    IF FLAGS_GET_GEODETIC(RecFlags(rec)) = 1 THEN 6 * 4
    ELSE 2 * FLAGS_NDIMS(RecFlags(rec)) * 4

gserialized_has_bbox(rec) == FLAGS_GET_BBOX(RecFlags(rec))

gserialized_header_size(rec) ==
    8 + (IF gserialized_has_bbox(rec) = 1 THEN gbox_serialized_size(RecFlags(rec)) ELSE 0)

\* The members of a box that gserialized_from_gbox writes, in its order: a minimum
\* at every odd index, a maximum at every even one.
GboxMembers(gbox) ==
    << gbox.xmin, gbox.xmax, gbox.ymin, gbox.ymax >>
    \o (IF FLAGS_GET_GEODETIC(gbox.flags) = 1 THEN << gbox.zmin, gbox.zmax >>
        ELSE (IF FLAGS_GET_Z(gbox.flags) = 1 THEN << gbox.zmin, gbox.zmax >> ELSE << >>)
             \o (IF FLAGS_GET_M(gbox.flags) = 1 THEN << gbox.mmin, gbox.mmax >> ELSE << >>))

\* A variant of gserialized_from_gbox that always steps one float outwards, even from
\* an ordinate that is already a float.
gserialized_from_gbox_strict(gbox) ==
    Concat([i \in 1..Len(GboxMembers(gbox)) |->
               IF i % 2 = 1 THEN FPrev(next_float_down(GboxMembers(gbox)[i]))
               ELSE FNext(next_float_up(GboxMembers(gbox)[i]))])

\* A variant of gserialized_from_gbox that rounds every member to the nearest float.
gserialized_from_gbox_nearest(gbox) ==
    Concat([i \in 1..Len(GboxMembers(gbox)) |-> D2F(GboxMembers(gbox)[i])])

\* The bytes gserialized_from_gbox writes.
gserialized_from_gbox(gbox) ==
    Concat([i \in 1..Len(GboxMembers(gbox)) |->
               IF i % 2 = 1 THEN next_float_down(GboxMembers(gbox)[i])
               ELSE next_float_up(GboxMembers(gbox)[i])])

\* The float at index i of the float array that starts at the record's data.
FBoxAt(rec, i) == F2D(Slice(rec, 8 + 4 * i, 4))

\* A variant of gserialized_read_gbox_p that reads M where Z is stored.
gserialized_read_gbox_p_mfour(rec) ==
    IF FLAGS_GET_BBOX(RecFlags(rec)) = 1 THEN
        << LW_SUCCESS,
           [flags |-> RecFlags(rec),
            xmin |-> FBoxAt(rec, 0), xmax |-> FBoxAt(rec, 1),
            ymin |-> FBoxAt(rec, 2), ymax |-> FBoxAt(rec, 3),
            zmin |-> FBoxAt(rec, 4), zmax |-> FBoxAt(rec, 5),
            mmin |-> FBoxAt(rec, 4), mmax |-> FBoxAt(rec, 5)] >>
    ELSE << LW_FAILURE >>

\* gserialized_read_gbox_p: << LW_SUCCESS, box >> or << LW_FAILURE >>.
gserialized_read_gbox_p(rec) ==
    LET flags == RecFlags(rec)
    IN  IF FLAGS_GET_BBOX(flags) = 1 THEN
            LET geod == FLAGS_GET_GEODETIC(flags) = 1
                hasz == FLAGS_GET_Z(flags) = 1
                hasm == FLAGS_GET_M(flags) = 1
                mi   == IF hasz THEN 6 ELSE 4
            IN  << LW_SUCCESS,
                   [flags |-> flags,
                    xmin |-> FBoxAt(rec, 0), xmax |-> FBoxAt(rec, 1),
                    ymin |-> FBoxAt(rec, 2), ymax |-> FBoxAt(rec, 3),
                    zmin |-> IF geod \/ hasz THEN FBoxAt(rec, 4) ELSE Unset,
                    zmax |-> IF geod \/ hasz THEN FBoxAt(rec, 5) ELSE Unset,
                    mmin |-> IF ~geod /\ hasm THEN FBoxAt(rec, mi) ELSE Unset,
                    mmax |-> IF ~geod /\ hasm THEN FBoxAt(rec, mi + 1) ELSE Unset] >>
        ELSE << LW_FAILURE >>

\* gbox_float_round: every live ordinate moved outwards to a float.
gbox_float_round(gbox) ==
    [k \in DOMAIN gbox |->
        IF k \in {"xmin", "ymin"} \/ (k = "zmin" /\ FLAGS_GET_Z(gbox.flags) = 1)
                                  \/ (k = "mmin" /\ FLAGS_GET_M(gbox.flags) = 1)
        THEN F2D(next_float_down(gbox[k]))
        ELSE IF k \in {"xmax", "ymax"} \/ (k = "zmax" /\ FLAGS_GET_Z(gbox.flags) = 1)
                                       \/ (k = "mmax" /\ FLAGS_GET_M(gbox.flags) = 1)
        THEN F2D(next_float_up(gbox[k]))
        ELSE gbox[k]]

(***************************************************************************)
(* The in-memory geometry tree.                                            *)
(*   POINTARRAY: [flags, npoints, list, view]: list is the bytes of the    *)
(*     ordinates (serialized_pointlist); view is the offset in the record  *)
(*     the array borrows its bytes from, or -1 when it owns them.          *)
(*   LWGEOM: [type, flags, srid, bbox, pa, rings, geoms]: bbox and pa are  *)
(*     sequences of length 0 (NULL) or 1; a leaf uses pa, a polygon rings, *)
(*     a collection geoms.                                                 *)
(***************************************************************************)
ptarray_point_size(pa) == 8 * FLAGS_NDIMS(pa.flags)

\* memcpy of n bytes out of a point array's ordinates.
PointBytes(pa, n) == SubSeq(pa.list, 1, n)

lwtype_is_collection(type) == type \in CollectionTypes

RECURSIVE lwgeom_is_empty(_)
lwgeom_is_empty(geom) ==
    IF geom.type \in LeafTypes THEN geom.pa[1].npoints = 0
    ELSE IF geom.type = POLYGONTYPE
         THEN Len(geom.rings) = 0 \/ geom.rings[1].npoints = 0
    ELSE \A i \in 1..Len(geom.geoms) : lwgeom_is_empty(geom.geoms[i])

lwgeom_needs_bbox(geom) == geom.type # POINTTYPE

\* The ordinate of dimension slot k (0-based, in storage order) of every point of a
\* point array.
PaOrdinates(pa, k) ==
    LET nd == FLAGS_NDIMS(pa.flags)
    IN  [i \in 1..pa.npoints |-> Slice(pa.list, 8 * ((i - 1) * nd + k), 8)]

RECURSIVE GeomPointArrays(_)
\* Every point array of a tree, in the order the encoder writes them.
GeomPointArrays(geom) ==
    IF geom.type \in LeafTypes THEN geom.pa
    ELSE IF geom.type = POLYGONTYPE THEN geom.rings
    ELSE Concat([i \in 1..Len(geom.geoms) |-> GeomPointArrays(geom.geoms[i])])

RECURSIVE DMinSeq(_)
DMinSeq(s) ==
    IF Len(s) = 1 THEN s[1]
    ELSE LET r == DMinSeq(Tail(s)) IN IF DLess(r, s[1]) THEN r ELSE s[1]

RECURSIVE DMaxSeq(_)
DMaxSeq(s) ==
    IF Len(s) = 1 THEN s[1]
    ELSE LET r == DMaxSeq(Tail(s)) IN IF DLess(s[1], r) THEN r ELSE s[1]

\* lwgeom_calculate_gbox of a cartesian tree: << LW_SUCCESS, box >> with the
\* extent of the coordinates, or << LW_FAILURE >> for an empty tree.
lwgeom_calculate_gbox(geom) ==
    LET pas  == GeomPointArrays(geom)
        hasz == FLAGS_GET_Z(geom.flags) = 1
        hasm == FLAGS_GET_M(geom.flags) = 1
        Ords(k) == Concat([i \in 1..Len(pas) |-> PaOrdinates(pas[i], k)])
    IN  CASE Ords(0) = << >> -> << LW_FAILURE >>
          [] Ords(0) # << >> /\ FLAGS_GET_GEODETIC(geom.flags) = 0 ->
                << LW_SUCCESS,
                   [flags |-> geom.flags,
                    xmin |-> DMinSeq(Ords(0)), xmax |-> DMaxSeq(Ords(0)),
                    ymin |-> DMinSeq(Ords(1)), ymax |-> DMaxSeq(Ords(1)),
                    zmin |-> IF hasz THEN DMinSeq(Ords(2)) ELSE Unset,
                    zmax |-> IF hasz THEN DMaxSeq(Ords(2)) ELSE Unset,
                    mmin |-> IF hasm THEN DMinSeq(Ords(IF hasz THEN 3 ELSE 2)) ELSE Unset,
                    mmax |-> IF hasm THEN DMaxSeq(Ords(IF hasz THEN 3 ELSE 2)) ELSE Unset] >>

\* lwgeom_add_bbox: attaches the calculated box and sets the bbox flag.
lwgeom_add_bbox(geom) ==
    IF lwgeom_is_empty(geom) \/ geom.bbox # << >> THEN geom
    ELSE [geom EXCEPT !.flags = FLAGS_SET_BBOX(geom.flags, 1),
                      !.bbox = << lwgeom_calculate_gbox(geom)[2] >>]

(***************************************************************************)
(* gserialized_from_*_size: the size the encoder expects to write.         *)
(***************************************************************************)
\* A variant of PolyPadding that never pads.
NoPadding(nrings) == 0

\* The padding of a polygon body after its npoints table: 4 bytes iff nrings is odd.
PolyPadding(nrings) == IF nrings % 2 = 1 THEN 4 ELSE 0

gserialized_from_lwpoint_size(point) ==
    4 + 4 + point.pa[1].npoints * FLAGS_NDIMS(point.flags) * 8

gserialized_from_lwline_size(line) ==
    4 + 4 + line.pa[1].npoints * FLAGS_NDIMS(line.flags) * 8

gserialized_from_lwtriangle_size(triangle) ==
    4 + 4 + triangle.pa[1].npoints * FLAGS_NDIMS(triangle.flags) * 8

gserialized_from_lwcircstring_size(curve) ==
    4 + 4 + curve.pa[1].npoints * FLAGS_NDIMS(curve.flags) * 8

gserialized_from_lwpoly_size(poly) ==
    4 + 4 + PolyPadding(Len(poly.rings))
    + SumSeq([i \in 1..Len(poly.rings) |->
                 4 + poly.rings[i].npoints * FLAGS_NDIMS(poly.flags) * 8])

RECURSIVE gserialized_from_any_size(_)
gserialized_from_lwcollection_size(col) ==
    4 + 4 + SumSeq([i \in 1..Len(col.geoms) |-> gserialized_from_any_size(col.geoms[i])])

gserialized_from_any_size(geom) ==
    CASE geom.type = POINTTYPE -> gserialized_from_lwpoint_size(geom)
      [] geom.type = LINETYPE -> gserialized_from_lwline_size(geom)
      [] geom.type = POLYGONTYPE -> gserialized_from_lwpoly_size(geom)
      [] geom.type = TRIANGLETYPE -> gserialized_from_lwtriangle_size(geom)
      [] geom.type = CIRCSTRINGTYPE -> gserialized_from_lwcircstring_size(geom)
      [] geom.type \in CollectionTypes -> gserialized_from_lwcollection_size(geom)

\* A variant of gserialized_from_lwgeom_size that leaves the box out.
gserialized_from_lwgeom_size_nobox(geom) == 8 + gserialized_from_any_size(geom)

gserialized_from_lwgeom_size(geom) ==
    8 + (IF geom.bbox # << >> THEN gbox_serialized_size(geom.flags) ELSE 0)
    + gserialized_from_any_size(geom)

(***************************************************************************)
(* gserialized_from_*: the body writers.  Each takes the geometry and the  *)
(* offset `base` of its output buffer in the record, and returns           *)
(*   bytes: the bytes written (its return value is their number),          *)
(*   runs:  one entry [off, len, type] per point array, in writing order:  *)
(*          the record offset its ordinates are copied to, the number of   *)
(*          bytes copied, and the type of the geometry owning the array,   *)
(*   errs:  the lwerror calls made, in order.                              *)
(***************************************************************************)
Written(bytes, runs, errs) == [bytes |-> bytes, runs |-> runs, errs |-> errs]

\* The shared shape of the point, line, triangle and circular string writers.
LeafWritten(type, pa, n, base, errs) ==
    Written(U32Bytes(type) \o U32Bytes(pa.npoints)
              \o (IF pa.npoints > 0 THEN PointBytes(pa, n) ELSE << >>),
            << [off |-> base + 8, len |-> IF pa.npoints > 0 THEN n ELSE 0, type |-> type] >>,
            errs)

gserialized_from_lwpoint(point, base) ==
    LeafWritten(POINTTYPE, point.pa[1], ptarray_point_size(point.pa[1]), base,
                IF FLAGS_GET_ZM(point.flags) # FLAGS_GET_ZM(point.pa[1].flags)
                THEN << "Dimensions mismatch in lwpoint" >> ELSE << >>)

gserialized_from_lwline(line, base) ==
    LeafWritten(LINETYPE, line.pa[1],
                line.pa[1].npoints * ptarray_point_size(line.pa[1]), base,
                IF FLAGS_GET_Z(line.flags) # FLAGS_GET_Z(line.pa[1].flags)
                THEN << "Dimensions mismatch in lwline" >> ELSE << >>)

gserialized_from_lwtriangle(triangle, base) ==
    LeafWritten(TRIANGLETYPE, triangle.pa[1],
                triangle.pa[1].npoints * ptarray_point_size(triangle.pa[1]), base,
                IF FLAGS_GET_ZM(triangle.flags) # FLAGS_GET_ZM(triangle.pa[1].flags)
                THEN << "Dimensions mismatch in lwtriangle" >> ELSE << >>)

gserialized_from_lwcircstring(curve, base) ==
    LeafWritten(CIRCSTRINGTYPE, curve.pa[1],
                curve.pa[1].npoints * ptarray_point_size(curve.pa[1]), base,
                IF FLAGS_GET_ZM(curve.flags) # FLAGS_GET_ZM(curve.pa[1].flags)
                THEN << "Dimensions mismatch in lwcircstring" >> ELSE << >>)

RECURSIVE PolyOrdinates(_, _, _, _)
\* The second loop of gserialized_from_lwpoly, from ring i on, with loc at `loc`.
PolyOrdinates(poly, ptsize, i, loc) ==
    IF i > Len(poly.rings) THEN Written(<< >>, << >>, << >>)
    ELSE LET pa     == poly.rings[i]
             pasize == pa.npoints * ptsize
             rest   == PolyOrdinates(poly, ptsize, i + 1, loc + pasize)
         IN  Written((IF pa.npoints > 0 THEN PointBytes(pa, pasize) ELSE << >>) \o rest.bytes,
                     << [off |-> loc, len |-> pasize, type |-> POLYGONTYPE] >> \o rest.runs,
                     (IF FLAGS_GET_ZM(poly.flags) # FLAGS_GET_ZM(pa.flags)
                      THEN << "Dimensions mismatch in lwpoly" >> ELSE << >>) \o rest.errs)

gserialized_from_lwpoly(poly, base) ==
    LET nrings == Len(poly.rings)
        ptsize == 8 * FLAGS_NDIMS(poly.flags)
        table  == Concat([i \in 1..nrings |-> U32Bytes(poly.rings[i].npoints)])
        pad    == [i \in 1..PolyPadding(nrings) |-> 0]
        ords   == PolyOrdinates(poly, ptsize, 1, base + 8 + Len(table) + Len(pad))
    IN  Written(U32Bytes(POLYGONTYPE) \o U32Bytes(nrings) \o table \o pad \o ords.bytes,
                ords.runs, ords.errs)

RECURSIVE gserialized_from_lwgeom_any(_, _)
RECURSIVE CollectionSubgeoms(_, _, _)
\* The loop of gserialized_from_lwcollection, from child i on, with loc at `loc`.
CollectionSubgeoms(coll, i, loc) ==
    IF i > Len(coll.geoms) THEN Written(<< >>, << >>, << >>)
    ELSE LET sub  == gserialized_from_lwgeom_any(coll.geoms[i], loc)
             rest == CollectionSubgeoms(coll, i + 1, loc + Len(sub.bytes))
         IN  Written(sub.bytes \o rest.bytes, sub.runs \o rest.runs,
                     (IF FLAGS_GET_ZM(coll.flags) # FLAGS_GET_ZM(coll.geoms[i].flags)
                      THEN << "Dimensions mismatch in lwcollection" >> ELSE << >>)
                     \o sub.errs \o rest.errs)

gserialized_from_lwcollection(coll, base) ==
    LET subs == CollectionSubgeoms(coll, 1, base + 8)
    IN  Written(U32Bytes(coll.type) \o U32Bytes(Len(coll.geoms)) \o subs.bytes,
                subs.runs, subs.errs)

gserialized_from_lwgeom_any(geom, base) ==
    CASE geom.type = POINTTYPE -> gserialized_from_lwpoint(geom, base)
      [] geom.type = LINETYPE -> gserialized_from_lwline(geom, base)
      [] geom.type = POLYGONTYPE -> gserialized_from_lwpoly(geom, base)
      [] geom.type = TRIANGLETYPE -> gserialized_from_lwtriangle(geom, base)
      [] geom.type = CIRCSTRINGTYPE -> gserialized_from_lwcircstring(geom, base)
      [] geom.type \in CollectionTypes -> gserialized_from_lwcollection(geom, base)
      [] OTHER -> Written(<< >>, << >>, << "Unknown geometry type" >>)

\* A variant of FlagsHarmonized that leaves the flags as the caller set them.
FlagsAsGiven(geom) == geom

\* The second step of Harmonized: the bbox flag follows the presence of a box.
FlagsHarmonized(geom) ==
    [geom EXCEPT !.flags = FLAGS_SET_BBOX(geom.flags, IF geom.bbox # << >> THEN 1 ELSE 0)]

\* The first half of gserialized_from_lwgeom: the geometry as the call leaves it,
\* with a box attached when one is needed and the bbox flag following the box.
Harmonized(geom) ==
    FlagsHarmonized(IF geom.bbox = << >> /\ lwgeom_needs_bbox(geom) /\ ~lwgeom_is_empty(geom)
                    THEN lwgeom_add_bbox(geom) ELSE geom)

\* The end of gserialized_from_lwgeom: the sizes compared, the header and the SRID
\* written.  box is what gserialized_from_gbox wrote, any what
\* gserialized_from_lwgeom_any wrote after it.
SerializedRecord(geom, box, any) ==
    IF gserialized_from_lwgeom_size(geom) # 8 + Len(box) + Len(any.bytes)
    THEN [geom |-> geom, rec |-> << >>, size |-> 0, runs |-> any.runs,
          errs |-> any.errs \o << "Return size not equal to expected size" >>]
    ELSE [geom |-> geom,
          rec  |-> gserialized_set_srid(U32Bytes((8 + Len(box) + Len(any.bytes)) * 4)
                                          \o << 0, 0, 0, geom.flags >> \o box \o any.bytes,
                                        geom.srid),
          size |-> 8 + Len(box) + Len(any.bytes), runs |-> any.runs, errs |-> any.errs]

\* The middle of gserialized_from_lwgeom: the body written after the box.
SerializedBody(geom, box) ==
    SerializedRecord(geom, box, gserialized_from_lwgeom_any(geom, 8 + Len(box)))

\* The second half of gserialized_from_lwgeom, on the harmonized geometry: the box
\* written when the geometry has one.
SerializedBoxed(geom) ==
    SerializedBody(geom, IF geom.bbox # << >> THEN gserialized_from_gbox(geom.bbox[1]) ELSE << >>)

\* gserialized_from_lwgeom: [geom, rec, size, runs, errs]: the geometry as mutated,
\* the record returned (<< >> for NULL), the size reported, and the lwerror calls.
gserialized_from_lwgeom(geom) == SerializedBoxed(Harmonized(geom))

(***************************************************************************)
(* De-serialization.  A reader takes the record, the offset data_ptr of    *)
(* the body it reads and the flag byte, and returns                        *)
(*   geom: the geometry built (NullGeom for a NULL return),                *)
(*   size: the value stored through g_size (0 when it is never stored),    *)
(*   errs: the lwerror calls made, in order.                               *)
(***************************************************************************)
gserialized_get_uint32_t(rec, loc) == U32Value(Slice(rec, loc, 4))

\* A point array that borrows npoints points from the record at data_ptr.
ptarray_construct_reference_data(hasz, hasm, npoints, rec, data_ptr) ==
    [flags   |-> ViewFlags(hasz, hasm),
     npoints |-> npoints,
     list    |-> Slice(rec, data_ptr, npoints * (2 + hasz + hasm) * 8),
     view    |-> data_ptr]

\* A point array that owns its (here always empty) storage.
ptarray_construct(hasz, hasm, npoints) ==
    [flags |-> hasz + 2 * hasm, npoints |-> npoints, list |-> << >>, view |-> -1]

Geom(type, flags, srid, bbox, pa, rings, geoms) ==
    [type |-> type, flags |-> flags, srid |-> srid, bbox |-> bbox,
     pa |-> pa, rings |-> rings, geoms |-> geoms]

NullGeom == Geom(0, 0, 0, << >>, << >>, << >>, << >>)

Built(geom, size, errs) == [geom |-> geom, size |-> size, errs |-> errs]

\* The shared shape of the line, triangle and circular string readers.
LeafBuilt(type, rec, data_ptr, g_flags) ==
    LET npoints == gserialized_get_uint32_t(rec, data_ptr + 4)
        hasz    == FLAGS_GET_Z(g_flags)
        hasm    == FLAGS_GET_M(g_flags)
    IN  Built(Geom(type, g_flags, SRID_UNKNOWN, << >>,
                   << IF npoints > 0
                      THEN ptarray_construct_reference_data(hasz, hasm, npoints, rec, data_ptr + 8)
                      ELSE ptarray_construct(hasz, hasm, 0) >>,
                   << >>, << >>),
              8 + FLAGS_NDIMS(g_flags) * npoints * 8, << >>)

\* The point reader borrows one point whatever positive count is stored.
lwpoint_from_gserialized_buffer(rec, data_ptr, g_flags) ==
    LET npoints == gserialized_get_uint32_t(rec, data_ptr + 4)
        hasz    == FLAGS_GET_Z(g_flags)
        hasm    == FLAGS_GET_M(g_flags)
    IN  Built(Geom(POINTTYPE, g_flags, SRID_UNKNOWN, << >>,
                   << IF npoints > 0
                      THEN ptarray_construct_reference_data(hasz, hasm, 1, rec, data_ptr + 8)
                      ELSE ptarray_construct(hasz, hasm, 0) >>,
                   << >>, << >>),
              8 + npoints * FLAGS_NDIMS(g_flags) * 8, << >>)

lwline_from_gserialized_buffer(rec, data_ptr, g_flags) ==
    LeafBuilt(LINETYPE, rec, data_ptr, g_flags)

\* A variant of lwtriangle_from_gserialized_buffer that types what it builds as a line.
lwtriangle_from_gserialized_buffer_asline(rec, data_ptr, g_flags) ==
    LeafBuilt(LINETYPE, rec, data_ptr, g_flags)

lwtriangle_from_gserialized_buffer(rec, data_ptr, g_flags) ==
    LeafBuilt(TRIANGLETYPE, rec, data_ptr, g_flags)

lwcircstring_from_gserialized_buffer(rec, data_ptr, g_flags) ==
    LeafBuilt(CIRCSTRINGTYPE, rec, data_ptr, g_flags)

RECURSIVE PolyRings(_, _, _, _, _, _)
\* The loop of lwpoly_from_gserialized_buffer from ring i on (0-based): data_ptr
\* walks the npoints table, ordinate_ptr the ordinates.  Returns the rings and the
\* final ordinate_ptr.
PolyRings(rec, g_flags, nrings, i, data_ptr, ordinate_ptr) ==
    IF i >= nrings THEN [rings |-> << >>, ordinate_ptr |-> ordinate_ptr]
    ELSE LET npoints == gserialized_get_uint32_t(rec, data_ptr)
             ring    == ptarray_construct_reference_data(FLAGS_GET_Z(g_flags), FLAGS_GET_M(g_flags),
                                                         npoints, rec, ordinate_ptr)
             rest    == PolyRings(rec, g_flags, nrings, i + 1, data_ptr + 4,
                                  ordinate_ptr + 8 * FLAGS_NDIMS(g_flags) * npoints)
         IN  [rings |-> << ring >> \o rest.rings, ordinate_ptr |-> rest.ordinate_ptr]

\* A variant of lwpoly_from_gserialized_buffer that never skips a padding word.
lwpoly_from_gserialized_buffer_nopad(rec, start_ptr, g_flags) ==
    LET nrings   == gserialized_get_uint32_t(rec, start_ptr + 4)
        data_ptr == start_ptr + 8
        loop     == PolyRings(rec, g_flags, nrings, 0, data_ptr, data_ptr + nrings * 4)
    IN  Built(Geom(POLYGONTYPE, g_flags, SRID_UNKNOWN, << >>, << >>, loop.rings, << >>),
              loop.ordinate_ptr - start_ptr, << >>)

lwpoly_from_gserialized_buffer(rec, start_ptr, g_flags) ==
    LET nrings   == gserialized_get_uint32_t(rec, start_ptr + 4)
        data_ptr == start_ptr + 8
        first    == IF nrings > 0
                    THEN data_ptr + nrings * 4 + (IF nrings % 2 = 1 THEN 4 ELSE 0)
                    ELSE data_ptr
        loop     == PolyRings(rec, g_flags, nrings, 0, data_ptr, first)
    IN  Built(Geom(POLYGONTYPE, g_flags, SRID_UNKNOWN, << >>, << >>, loop.rings, << >>),
              loop.ordinate_ptr - start_ptr, << >>)

RECURSIVE lwgeom_from_gserialized_buffer(_, _, _)
RECURSIVE CollectionGeoms(_, _, _, _, _, _)
\* The loop of lwcollection_from_gserialized_buffer from child i on (0-based), with
\* g_flags already cleared of the bbox bit.  ok is FALSE when a subtype was refused.
CollectionGeoms(rec, type, g_flags, ngeoms, i, data_ptr) ==
    IF i >= ngeoms THEN [ok |-> TRUE, geoms |-> << >>, data_ptr |-> data_ptr, errs |-> << >>]
    ELSE LET subtype == gserialized_get_uint32_t(rec, data_ptr)
         IN  IF ~lwcollection_allows_subtype(type, subtype)
             THEN [ok |-> FALSE, geoms |-> << >>, data_ptr |-> data_ptr,
                   errs |-> << "Invalid subtype for collection type" >>]
             ELSE LET sub  == lwgeom_from_gserialized_buffer(rec, data_ptr, g_flags)
                      rest == CollectionGeoms(rec, type, g_flags, ngeoms, i + 1,
                                              data_ptr + sub.size)
                  IN  [ok |-> rest.ok, geoms |-> << sub.geom >> \o rest.geoms,
                       data_ptr |-> rest.data_ptr, errs |-> sub.errs \o rest.errs]

\* A variant of lwcollection_from_gserialized_buffer that hands its own flags on to
\* the children.
lwcollection_from_gserialized_buffer_boxed(rec, start_ptr, g_flags) ==
    LET type   == gserialized_get_uint32_t(rec, start_ptr)
        ngeoms == gserialized_get_uint32_t(rec, start_ptr + 4)
        loop   == CollectionGeoms(rec, type, g_flags, ngeoms, 0, start_ptr + 8)
    IN  IF loop.ok
        THEN Built(Geom(type, g_flags, SRID_UNKNOWN, << >>, << >>, << >>, loop.geoms),
                   loop.data_ptr - start_ptr, loop.errs)
        ELSE Built(NullGeom, 0, loop.errs)

lwcollection_from_gserialized_buffer(rec, start_ptr, g_flags) ==
    LET type   == gserialized_get_uint32_t(rec, start_ptr)
        ngeoms == gserialized_get_uint32_t(rec, start_ptr + 4)
        loop   == CollectionGeoms(rec, type, FLAGS_SET_BBOX(g_flags, 0), ngeoms, 0, start_ptr + 8)
    IN  IF loop.ok
        THEN Built(Geom(type, g_flags, SRID_UNKNOWN, << >>, << >>, << >>, loop.geoms),
                   loop.data_ptr - start_ptr, loop.errs)
        ELSE Built(NullGeom, 0, loop.errs)

lwgeom_from_gserialized_buffer(rec, data_ptr, g_flags) ==
    LET type == gserialized_get_uint32_t(rec, data_ptr)
    IN  CASE type = POINTTYPE -> lwpoint_from_gserialized_buffer(rec, data_ptr, g_flags)
          [] type = LINETYPE -> lwline_from_gserialized_buffer(rec, data_ptr, g_flags)
          [] type = CIRCSTRINGTYPE -> lwcircstring_from_gserialized_buffer(rec, data_ptr, g_flags)
          [] type = POLYGONTYPE -> lwpoly_from_gserialized_buffer(rec, data_ptr, g_flags)
          [] type = TRIANGLETYPE -> lwtriangle_from_gserialized_buffer(rec, data_ptr, g_flags)
          [] type \in CollectionTypes -> lwcollection_from_gserialized_buffer(rec, data_ptr, g_flags)
          [] OTHER -> Built(NullGeom, 0, << "Unknown geometry type" >>)

gserialized_get_type(rec) ==
    gserialized_get_uint32_t(rec,
        8 + (IF FLAGS_GET_BBOX(RecFlags(rec)) = 1 THEN gbox_serialized_size(RecFlags(rec)) ELSE 0))

RECURSIVE lwgeom_set_srid(_, _)
\* lwgeom_set_srid: the SRID of a geometry and of everything below it.
lwgeom_set_srid(geom, srid) ==
    [geom EXCEPT !.srid = srid,
                 !.geoms = [i \in 1..Len(geom.geoms) |-> lwgeom_set_srid(geom.geoms[i], srid)]]

\* gbox_copy: a fresh copy of a box.
gbox_copy(box) == box

\* The end of lwgeom_from_gserialized: the box of the geometry built, the stored one
\* or else the calculated one, and the SRID.
DeserializedBoxed(lwgeom, stored, g_srid) ==
    LET Copied(ret) == IF ret[1] = LW_SUCCESS THEN << gbox_copy(ret[2]) >> ELSE << >>
    IN  lwgeom_set_srid([lwgeom EXCEPT !.bbox =
                            IF stored[1] = LW_SUCCESS THEN Copied(stored)
                            ELSE IF lwgeom_needs_bbox(lwgeom)
                                 THEN Copied(lwgeom_calculate_gbox(lwgeom))
                            ELSE << >>],
                        g_srid)

\* The second half of lwgeom_from_gserialized: built is what
\* lwgeom_from_gserialized_buffer returned.
Deserialized(rec, built) ==
    IF built.geom = NullGeom
    THEN [geom |-> NullGeom,
          errs |-> built.errs \o << "lwgeom_from_gserialized: unable create geometry" >>]
    ELSE [geom |-> DeserializedBoxed([built.geom EXCEPT !.type = gserialized_get_type(rec),
                                                        !.flags = RecFlags(rec)],
                                     gserialized_read_gbox_p(rec), gserialized_get_srid(rec)),
          errs |-> built.errs]

\* lwgeom_from_gserialized: [geom, errs].  A NULL from the buffer reader is reported
\* and returned as NullGeom.
lwgeom_from_gserialized(rec) ==
    Deserialized(rec,
                 lwgeom_from_gserialized_buffer(rec,
                     8 + (IF FLAGS_GET_BBOX(RecFlags(rec)) = 1
                          THEN gbox_serialized_size(RecFlags(rec)) ELSE 0),
                     RecFlags(rec)))

(***************************************************************************)
(* The geometries the codec is run on.  A geometry is drawn by its type,   *)
(* a count (points of a leaf, rings of a polygon, children of a            *)
(* collection), a seed that selects ordinates, ring sizes and child types, *)
(* its Z/M flags, its geodetic flag and whether it arrives with a cached   *)
(* box.                                                                    *)
(***************************************************************************)
MaxCount == 3

MaxSeed == 9

D(s, e, mh, ml) == DBytes([s |-> s, e |-> e, mh |-> mh, ml |-> ml])

\* 0.0, 0.0, 1.0, -1.0, 1 + 2^-30 (not a float), 2.0, 0.5, -(1 + 2^-30), 3.0
Samples ==
    << D(0, 0, 0, 0), D(0, 0, 0, 0), D(0, 1023, 0, 0), D(1, 1023, 0, 0),
       D(0, 1023, 0, 4194304), D(0, 1024, 0, 0), D(0, 1022, 0, 0), D(1, 1023, 0, 4194304),
       D(0, 1024, 4194304, 0) >>

SridSamples == << 0, 4326, -1, 999999, 1000000, 2147483647 >>

\* An owned point array of npoints points of flags' dimensions, filled from Samples.
SamplePoints(flags, npoints, seed) ==
    [flags   |-> FLAGS_GET_Z(flags) + 2 * FLAGS_GET_M(flags),
     npoints |-> npoints,
     list    |-> Concat([k \in 1..(npoints * FLAGS_NDIMS(flags)) |->
                            Samples[((seed + k) % Len(Samples)) + 1]]),
     view    |-> -1]

\* The number of points of ring i of the polygon drawn by seed: the outer ring has
\* points, an inner ring may have none.
RingPts(seed, i) ==
    IF i = 1 THEN 1 + (seed % 4) ELSE (seed + 1 + i * (seed % 3)) % 5

\* The subtypes a collection type allows, in increasing order.
AllowedSeq(type) ==
    SelectSeq([s \in 1..15 |-> s], LAMBDA s : lwcollection_allows_subtype(type, s))

RECURSIVE Build(_, _, _, _)
\* The geometry of the given type drawn by (n, seed), without a box; flags holds the
\* Z, M and geodetic bits.  A child has fewer parts than its parent, and every third
\* cartesian child carries a cached box of its own.
Build(type, n, seed, flags) ==
    IF type = POINTTYPE
    THEN Geom(type, flags, SRID_UNKNOWN, << >>,
              << SamplePoints(flags, Min2(n, 1), seed) >>, << >>, << >>)
    ELSE IF type \in LeafTypes
    THEN Geom(type, flags, SRID_UNKNOWN, << >>, << SamplePoints(flags, n, seed) >>, << >>, << >>)
    ELSE IF type = POLYGONTYPE
    THEN Geom(type, flags, SRID_UNKNOWN, << >>, << >>,
              [i \in 1..n |-> SamplePoints(flags, RingPts(seed, i), seed + i)], << >>)
    ELSE LET subs  == AllowedSeq(type)
             Child(i) ==
                 LET c == Build(subs[((seed + i) % Len(subs)) + 1], (seed + i) % n, seed + i, flags)
                 IN  IF (seed + i) % 3 = 0 /\ FLAGS_GET_GEODETIC(flags) = 0
                     THEN lwgeom_add_bbox(c) ELSE c
         IN  Geom(type, flags, SRID_UNKNOWN, << >>, << >>, << >>, [i \in 1..n |-> Child(i)])

\* A box of a geodetic geometry, as the geodetic calculator may have left it: the
\* geocentric extent of an arc on the unit sphere.
GeodeticBox(flags) ==
    [flags |-> FLAGS_SET_BBOX(flags, 1),
     xmin |-> Samples[7], xmax |-> Samples[3], ymin |-> Samples[1], ymax |-> Samples[7],
     zmin |-> Samples[4], zmax |-> Samples[5], mmin |-> Unset, mmax |-> Unset]

\* The geometry g as it arrives: with its box when cached and not empty, a geodetic
\* one with the box of GeodeticBox.
Arriving(g, geodetic, cached) ==
    IF ~cached \/ lwgeom_is_empty(g) THEN g
    ELSE IF geodetic = 0 THEN lwgeom_add_bbox(g)
    ELSE [g EXCEPT !.flags = FLAGS_SET_BBOX(g.flags, 1),
                   !.bbox = << GeodeticBox(g.flags) >>]

\* The input geometry: Build's tree with its SRID set and, when cached, its box.
Input(type, n, seed, zm, geodetic, cached) ==
    Arriving(lwgeom_set_srid(Build(type, n, seed, zm + 8 * geodetic),
                             SridSamples[(seed % Len(SridSamples)) + 1]),
             geodetic, cached)

\* The inputs: a geodetic geometry that needs a box arrives with one.
Inputs ==
    { Input(t, n, seed, zm, geodetic, cached) :
        t \in 1..15, n \in 0..MaxCount, seed \in 0..MaxSeed, zm \in 0..3,
        geodetic \in 0..1, cached \in BOOLEAN }

ValidInputs ==
    { g \in Inputs : FLAGS_GET_GEODETIC(g.flags) = 1 /\ lwgeom_needs_bbox(g) /\ ~lwgeom_is_empty(g)
                        => g.bbox # << >> }

(***************************************************************************)
(* State.                                                                  *)
(*   pc    what has run so far                                             *)
(*   geom  the caller's geometry (the encoder updates it in place)         *)
(*   enc   the result of gserialized_from_lwgeom(geom)                     *)
(*   dec   the result of lwgeom_from_gserialized(enc.rec)                  *)
(*   enc2  the result of gserialized_from_lwgeom(dec.geom)                 *)
(*   srec, sprev, sarg, sgot   the SRID codec: the record, the record      *)
(*         before the last write, the SRID written, the SRID read back     *)
(*   slot, cmp   the comparator: three records in memory and the results   *)
(*         of the comparisons made so far                                  *)
(*   pkbox, gtbox, pkpoint   what gserialized_peek_gbox_p,                 *)
(*         gserialized_get_gbox_p and gserialized_peek_first_point         *)
(*         returned for enc.rec                                            *)
(*   image the memory image a damaged record is decoded from               *)
(*   run   what lwgeom_from_gserialized did on image: the geometry         *)
(*         returned and the reads, views, allocations, releases and        *)
(*         error reports made, in order                                    *)
(*   handlers  the five handler variables of lwutil.c                      *)
(*   supplied  for each handler the last non-NULL value passed to          *)
(*         lwgeom_set_handlers                                             *)
(*   called    the last call dispatched: the entry point and the handler   *)
(*         that received it                                                *)
(*   msg   the arguments of a call of lwmessage_truncate                   *)
(*   trunc what the call returned: the string, and the number of bytes of  *)
(*         its buffer that were written                                    *)
(*   original  the geometry as the caller built it, before an encode whose *)
(*         input is looked back at                                         *)
(***************************************************************************)
VARIABLES pc, geom, enc, dec, enc2, srec, sprev, sarg, sgot, slot, cmp, pkbox, gtbox, pkpoint,
          image, run, handlers, supplied, called, msg, trunc, original

vars == << pc, geom, enc, dec, enc2, srec, sprev, sarg, sgot, slot, cmp, pkbox, gtbox, pkpoint,
          image, run, handlers, supplied, called, msg, trunc, original >>

codecVars == << geom, enc, dec, enc2 >>

sridVars == << srec, sprev, sarg, sgot >>

cmpVars == << slot, cmp >>

peekVars == << pkbox, gtbox, pkpoint >>

\* The variables of the operations added to the codec, the SRID codec and the comparator.
extVars == << peekVars, image, run, handlers, supplied, called, msg, trunc, original >>

damageVars == << image, run >>

handlerVars == << handlers, supplied, called >>

truncVars == << msg, trunc >>

None == << >>

\* No peek has been made.
PeekIdle == pkbox = None /\ gtbox = None /\ pkpoint = None

\* No damaged record is being decoded.
DamageIdle == image = None /\ run = None

\* The handler variables are not in play.
HandlersIdle == handlers = None /\ supplied = None /\ called = None

\* No message is being truncated.
TruncIdle == msg = None /\ trunc = None

ExtIdle == PeekIdle /\ DamageIdle /\ HandlersIdle /\ TruncIdle /\ original = None

Init ==
    /\ pc = "input"
    /\ geom \in ValidInputs
    /\ enc = None /\ dec = None /\ enc2 = None
    /\ srec = None /\ sprev = None /\ sarg = 0 /\ sgot = None
    /\ slot = None /\ cmp = None
    /\ ExtIdle

\* gserialized_from_lwgeom(geom): the record is built and geom updated in place.
Encode ==
    /\ pc = "input"
    /\ enc' = gserialized_from_lwgeom(geom)
    /\ geom' = enc'.geom
    /\ pc' = "encoded"
    /\ UNCHANGED << dec, enc2, sridVars, cmpVars, extVars >>

\* lwgeom_from_gserialized(enc.rec).
Decode ==
    /\ pc = "encoded"
    /\ enc.rec # << >>
    /\ dec' = lwgeom_from_gserialized(enc.rec)
    /\ pc' = "decoded"
    /\ UNCHANGED << geom, enc, enc2, sridVars, cmpVars, extVars >>

\* gserialized_from_lwgeom(dec.geom): the decoded geometry is encoded again.
Reencode ==
    /\ pc = "decoded"
    /\ dec.geom # NullGeom
    /\ enc2' = gserialized_from_lwgeom(dec.geom)
    /\ pc' = "reencoded"
    /\ UNCHANGED << geom, enc, dec, sridVars, cmpVars, extVars >>

Next == Encode \/ Decode \/ Reencode

Spec == Init /\ [][Next]_vars

(***************************************************************************)
(* Properties of the codec (specification Spec).                           *)
(***************************************************************************)
Encoded == pc \in {"encoded", "decoded", "reencoded"}

Decoded == pc \in {"decoded", "reencoded"}

\* The flag byte with the bbox bit cleared.
SansBBox(flags) == FLAGS_SET_BBOX(flags, 0)

\* Two sequences of point arrays hold the same coordinates in the same order.
SameCoordinates(ps, qs) ==
    /\ Len(ps) = Len(qs)
    /\ \A i \in 1..Len(ps) : ps[i].npoints = qs[i].npoints /\ ps[i].list = qs[i].list

RECURSIVE SameGeometry(_, _)
\* d is g up to the bbox bit, the clamping of the SRID and the cached boxes.
SameGeometry(g, d) ==
    /\ d.type = g.type
    /\ SansBBox(d.flags) = SansBBox(g.flags)
    /\ d.srid = clamp_srid(g.srid)
    /\ SameCoordinates(g.pa, d.pa)
    /\ SameCoordinates(g.rings, d.rings)
    /\ Len(d.geoms) = Len(g.geoms)
    /\ \A i \in 1..Len(g.geoms) : SameGeometry(g.geoms[i], d.geoms[i])

\* C5: decode(encode(g)) has g's kind, g's flags apart from the bbox bit, g's SRID
\* after clamping and g's coordinates, leaf by leaf and ring by ring, in order, at
\* every level of nesting; neither call reports an error.
C5_RoundTrip ==
    Decoded => /\ enc.errs = << >>
               /\ dec.errs = << >>
               /\ SameGeometry(geom, dec.geom)

\* A collection with Z and M that holds a non-empty collection has been decoded.
C5_Witness ==
    /\ pc = "decoded"
    /\ geom.type = COLLECTIONTYPE
    /\ FLAGS_GET_ZM(geom.flags) = 3
    /\ geom.srid > SRID_MAXIMUM
    /\ \E i \in 1..Len(geom.geoms) :
          /\ geom.geoms[i].type \in CollectionTypes
          /\ ~lwgeom_is_empty(geom.geoms[i])
          /\ dec.geom.geoms[i].geoms # << >>

\* C6: encode(decode(encode(g))) is the record encode(g), byte for byte.
C6_IdempotentEncoding ==
    pc = "reencoded" => enc2.rec # << >> /\ enc2.rec = enc.rec

\* A polygon with an odd number of rings, a stored box with ordinates that are not
\* floats and a known SRID has been encoded, decoded and encoded again.
C6_Witness ==
    /\ pc = "reencoded"
    /\ geom.type = POLYGONTYPE
    /\ Len(geom.rings) % 2 = 1
    /\ gserialized_has_bbox(enc.rec) = 1
    /\ geom.bbox # << >>
    /\ F2D(D2F(geom.bbox[1].xmax)) # geom.bbox[1].xmax
    /\ gserialized_get_srid(enc.rec) # SRID_UNKNOWN

\* C7: encode writes exactly gserialized_from_lwgeom_size(geom) bytes, so that the
\* size check passes and a record is returned; the size it reports and the record's
\* size word shifted right by 2 are that number of bytes.
C7_SizeExact ==
    Encoded => /\ enc.rec # << >>
               /\ "Return size not equal to expected size" \notin { enc.errs[i] : i \in 1..Len(enc.errs) }
               /\ Len(enc.rec) = gserialized_from_lwgeom_size(geom)
               /\ enc.size = Len(enc.rec)
               /\ RecSize(enc.rec) = Len(enc.rec)

\* A non-empty collection has been encoded with a stored box into more than 100 bytes.
C7_Witness ==
    /\ pc = "encoded"
    /\ geom.type \in CollectionTypes
    /\ geom.bbox # << >>
    /\ Len(enc.rec) > 100
    /\ gserialized_from_lwgeom_size(geom) = 8 + gbox_serialized_size(geom.flags)
                                              + gserialized_from_any_size(geom)

\* C8: in a record encode returns, every run of ordinates starts at an offset that
\* is a multiple of 8, and the run holds the ordinates of its point array.
C8_Alignment ==
    Encoded /\ enc.rec # << >> =>
        /\ Len(enc.runs) = Len(GeomPointArrays(geom))
        /\ \A i \in 1..Len(enc.runs) :
              /\ enc.runs[i].off % 8 = 0
              /\ Slice(enc.rec, enc.runs[i].off, enc.runs[i].len)
                    = SubSeq(GeomPointArrays(geom)[i].list, 1, enc.runs[i].len)

\* A record with a stored box holds, inside a collection, a polygon with an odd
\* number of rings that is not the first child, and the polygon has ordinates.
C8_Witness ==
    /\ pc = "encoded"
    /\ enc.rec # << >>
    /\ geom.type \in CollectionTypes
    /\ gserialized_has_bbox(enc.rec) = 1
    /\ \E i \in 2..Len(geom.geoms) :
          /\ geom.geoms[i].type = POLYGONTYPE
          /\ Len(geom.geoms[i].rings) % 2 = 1
    /\ \E j \in 1..Len(enc.runs) :
          enc.runs[j].type = POLYGONTYPE /\ enc.runs[j].len > 0 /\ enc.runs[j].off > 64

\* The body length of a polygon of the given ring sizes and dimensions.
PolyBodyLength(npoints, ndims) ==
    8 + 4 * Len(npoints) + (IF Len(npoints) % 2 = 1 THEN 4 ELSE 0) + 8 * ndims * SumSeq(npoints)

RingSizes(poly) == [i \in 1..Len(poly.rings) |-> poly.rings[i].npoints]

\* C9: for a polygon, the size function and the encoder give the body the length
\* 8 + 4*nrings + (4 iff nrings is odd) + 8*ndims*(sum of the ring sizes), the
\* padding word lies between the npoints table and the first ring's ordinates iff
\* nrings is odd, and the decoder's view of every ring, in a polygon at any depth,
\* starts where the encoder wrote that ring.
C9_PolygonPadding ==
    Decoded =>
        /\ \A i \in 1..Len(enc.runs) :
              enc.runs[i].type = POLYGONTYPE =>
                 /\ GeomPointArrays(dec.geom)[i].view = enc.runs[i].off
                 /\ GeomPointArrays(dec.geom)[i].npoints * 8 * FLAGS_NDIMS(geom.flags) = enc.runs[i].len
        /\ geom.type = POLYGONTYPE =>
              LET hsz  == gserialized_header_size(enc.rec)
                  len  == PolyBodyLength(RingSizes(geom), FLAGS_NDIMS(geom.flags))
                  n    == Len(geom.rings)
              IN  /\ Len(enc.rec) - hsz = len
                  /\ gserialized_from_lwpoly_size(geom) = len
                  /\ n > 0 => enc.runs[1].off = hsz + 8 + 4 * n + (IF n % 2 = 1 THEN 4 ELSE 0)
                  /\ n % 2 = 1 => Slice(enc.rec, hsz + 8 + 4 * n, 4) = << 0, 0, 0, 0 >>

\* A 2D polygon of three rings of four points has been encoded into a body of 216
\* bytes and decoded.
C9_Witness ==
    /\ pc = "decoded"
    /\ geom.type = POLYGONTYPE
    /\ FLAGS_NDIMS(geom.flags) = 2
    /\ RingSizes(geom) = << 4, 4, 4 >>
    /\ Len(enc.rec) - gserialized_header_size(enc.rec) = 216
    /\ dec.geom.rings[3].view = enc.runs[3].off

(***************************************************************************)
(* The SRID header codec (specification SpecSrid): gserialized_set_srid    *)
(* and gserialized_get_srid on a record.                                   *)
(***************************************************************************)
SridSpan == 8

\* The SRIDs written: the ends of the 32-bit range, the values around the powers of
\* two of the 21-bit field, and the values around SRID_USER_MAXIMUM and SRID_MAXIMUM.
SridInputs ==
    { -2147483647 - 1, -1048576, -1, 0, 1, 4326, 65535, 65536, 1048575, 1048576,
      2097151, 2097152, 2147483647 }
    \cup ((SRID_USER_MAXIMUM - SridSpan)..(SRID_USER_MAXIMUM + SridSpan))
    \cup ((SRID_MAXIMUM - SridSpan)..(SRID_MAXIMUM + SridSpan))

\* The records written to: an empty point, a point with a cached box, a line, and the
\* empty point with SRID bytes as another writer may have left them.
SridRecords ==
    { gserialized_from_lwgeom(Input(i[1], i[2], i[3], i[4], 0, i[5])).rec :
        i \in { << POINTTYPE, 0, 1, 0, FALSE >>, << POINTTYPE, 1, 0, 3, TRUE >>,
                << LINETYPE, 2, 2, 1, FALSE >> } }
    \cup { [ r EXCEPT ![5] = 255, ![6] = 255, ![7] = 255 ] :
             r \in { gserialized_from_lwgeom(Input(POINTTYPE, 0, 1, 0, 0, FALSE)).rec } }

InitSrid ==
    /\ pc = "record"
    /\ srec \in SridRecords
    /\ sprev = None /\ sarg = 0 /\ sgot = None
    /\ geom = None /\ enc = None /\ dec = None /\ enc2 = None
    /\ slot = None /\ cmp = None
    /\ ExtIdle

\* gserialized_set_srid(srec, srid)
SetSrid ==
    /\ pc \in {"record", "written", "read"}
    /\ \E srid \in SridInputs :
          /\ srec' = gserialized_set_srid(srec, srid)
          /\ sarg' = srid
    /\ sprev' = srec
    /\ sgot' = None
    /\ pc' = "written"
    /\ UNCHANGED << codecVars, cmpVars, extVars >>

\* gserialized_get_srid(srec)
GetSrid ==
    /\ pc \in {"record", "written"}
    /\ sgot' = << gserialized_get_srid(srec) >>
    /\ pc' = "read"
    /\ UNCHANGED << srec, sprev, sarg, codecVars, cmpVars, extVars >>

NextSrid == SetSrid \/ GetSrid

SpecSrid == InitSrid /\ [][NextSrid]_vars

\* C10: the SRID read after gserialized_set_srid(record, srid) is clamp_srid(srid);
\* the three SRID bytes are zero exactly when the SRID written clamps to
\* SRID_UNKNOWN, and three zero bytes read back as SRID_UNKNOWN; the write leaves
\* every byte of the record but the three SRID bytes as it was.
C10_SridRoundTrip ==
    /\ sprev # None =>
          /\ Len(srec) = Len(sprev)
          /\ \A i \in 1..Len(srec) : i \notin 5..7 => srec[i] = sprev[i]
          /\ RecSridBytes(srec) = << 0, 0, 0 >> <=> clamp_srid(sarg) = SRID_UNKNOWN
    /\ sgot # None /\ sprev # None => sgot[1] = clamp_srid(sarg)
    /\ sgot # None /\ RecSridBytes(srec) = << 0, 0, 0 >> => sgot[1] = SRID_UNKNOWN

\* An SRID above SRID_MAXIMUM has been written over SRID bytes that were all ones,
\* and read back.
C10_Witness ==
    /\ pc = "read"
    /\ sprev # None
    /\ RecSridBytes(sprev) = << 255, 255, 255 >>
    /\ sarg = 2147483647
    /\ sgot = << clamp_srid(2147483647) >>
    /\ sgot[1] # sarg

(***************************************************************************)
(* 64-bit words as sequences of 64 bits, least significant bit first.      *)
(***************************************************************************)
ByteBits(b) ==
    << b % 2, (b \div 2) % 2, (b \div 4) % 2, (b \div 8) % 2,
       (b \div 16) % 2, (b \div 32) % 2, (b \div 64) % 2, (b \div 128) % 2 >>

\* A uint32_t, given by its bytes in memory, widened to a uint64_t.
U64OfU32(b) ==
    ByteBits(b[1]) \o ByteBits(b[2]) \o ByteBits(b[3]) \o ByteBits(b[4]) \o [j \in 1..32 |-> 0]

U64Shl(x, n) == [j \in 1..64 |-> IF j > n THEN x[j - n] ELSE 0]

U64Or(x, y) == [j \in 1..64 |-> IF x[j] = 1 \/ y[j] = 1 THEN 1 ELSE 0]

RECURSIVE U64LessFrom(_, _, _)
\* x < y on bits j..1, the bits above j being equal.
U64LessFrom(x, y, j) ==
    IF j = 0 THEN FALSE
    ELSE IF x[j] # y[j] THEN x[j] < y[j]
    ELSE U64LessFrom(x, y, j - 1)

\* x < y as unsigned numbers.
U64Less(x, y) == U64LessFrom(x, y, 64)

\* S[i] and bit j (0-based) of B[i] of uint32_interleave_2, for i in 0..4.
InterleaveS(i) == << 1, 2, 4, 8, 16 >>[i + 1]

InterleaveB(i, j) == IF (j % (2 * InterleaveS(i))) < InterleaveS(i) THEN 1 ELSE 0

RECURSIVE InterleaveSpread(_, _)
\* The loop of uint32_interleave_2 on one word, from step i down to step 0.
InterleaveSpread(x, i) ==
    IF i < 0 THEN x
    ELSE LET shifted == U64Or(x, U64Shl(x, InterleaveS(i)))
         IN  InterleaveSpread([j \in 1..64 |-> IF InterleaveB(i, j - 1) = 1 THEN shifted[j] ELSE 0],
                              i - 1)

uint32_interleave_2(u1, u2) ==
    U64Or(InterleaveSpread(U64OfU32(u1), 4), U64Shl(InterleaveSpread(U64OfU32(u2), 4), 1))

\* gbox_get_sortable_hash of a cartesian box: x.f and y.f are the float bytes whose
\* bits the union hands to the interleave.
gbox_get_sortable_hash(g) ==
    CASE FLAGS_GET_GEODETIC(g.flags) = 0 ->
            uint32_interleave_2(DSumToFloat(g.xmax, g.xmin), DSumToFloat(g.ymax, g.ymin))

(***************************************************************************)
(* Boxes without an LWGEOM.                                                *)
(***************************************************************************)
FP_MIN(a, b) == IF DLess(a, b) THEN a ELSE b

FP_MAX(a, b) == IF DLess(b, a) THEN a ELSE b

\* dptr[i] and iptr[i] of gserialized_peek_gbox_p: both start at g->data.
PeekD(rec, i) == Slice(rec, 8 + 8 * i, 8)

PeekI(rec, i) == U32Value(Slice(rec, 8 + 4 * i, 4))

\* The box of the single point whose ordinates start at dptr[i].
PeekPointBox(rec, i) ==
    LET flags == RecFlags(rec)
        hasz  == FLAGS_GET_Z(flags)
    IN  [flags |-> flags,
         xmin |-> PeekD(rec, i), xmax |-> PeekD(rec, i),
         ymin |-> PeekD(rec, i + 1), ymax |-> PeekD(rec, i + 1),
         zmin |-> IF hasz = 1 THEN PeekD(rec, i + 2) ELSE Unset,
         zmax |-> IF hasz = 1 THEN PeekD(rec, i + 2) ELSE Unset,
         mmin |-> IF FLAGS_GET_M(flags) = 1 THEN PeekD(rec, i + 2 + hasz) ELSE Unset,
         mmax |-> IF FLAGS_GET_M(flags) = 1 THEN PeekD(rec, i + 2 + hasz) ELSE Unset]

\* A variant of PeekLineBox that takes the first point for both ends of the box.
PeekLineBoxFirst(rec, i) == PeekPointBox(rec, i)

\* The box of the two points whose ordinates start at dptr[i].
PeekLineBox(rec, i) ==
    LET flags == RecFlags(rec)
        ndims == FLAGS_NDIMS(flags)
        hasz  == FLAGS_GET_Z(flags)
        Lo(k) == FP_MIN(PeekD(rec, k), PeekD(rec, k + ndims))
        Hi(k) == FP_MAX(PeekD(rec, k), PeekD(rec, k + ndims))
    IN  [flags |-> flags,
         xmin |-> Lo(i), xmax |-> Hi(i), ymin |-> Lo(i + 1), ymax |-> Hi(i + 1),
         zmin |-> IF hasz = 1 THEN Lo(i + 2) ELSE Unset,
         zmax |-> IF hasz = 1 THEN Hi(i + 2) ELSE Unset,
         mmin |-> IF FLAGS_GET_M(flags) = 1 THEN Lo(i + 2 + hasz) ELSE Unset,
         mmax |-> IF FLAGS_GET_M(flags) = 1 THEN Hi(i + 2 + hasz) ELSE Unset]

\* A variant of PeekedBox that takes any line of two points or more for a line of two.
PeekedBoxAnyLine(rec) ==
    LET type  == gserialized_get_type(rec)
        flags == RecFlags(rec)
    IN  IF FLAGS_GET_GEODETIC(flags) = 1 \/ FLAGS_GET_BBOX(flags) = 1 THEN << LW_FAILURE >>
        ELSE IF type = POINTTYPE
        THEN IF PeekI(rec, 1) = 0 THEN << LW_FAILURE >>
             ELSE << LW_SUCCESS, PeekPointBox(rec, 1) >>
        ELSE IF type = LINETYPE
        THEN IF PeekI(rec, 1) < 2 THEN << LW_FAILURE >>
             ELSE << LW_SUCCESS, PeekLineBox(rec, 1) >>
        ELSE IF type = MULTIPOINTTYPE
        THEN IF PeekI(rec, 1) # 1 THEN << LW_FAILURE >>
             ELSE IF PeekI(rec, 3) # 1 THEN << LW_FAILURE >>
             ELSE << LW_SUCCESS, PeekPointBox(rec, 2) >>
        ELSE IF type = MULTILINETYPE
        THEN IF PeekI(rec, 1) # 1 THEN << LW_FAILURE >>
             ELSE IF PeekI(rec, 3) < 2 THEN << LW_FAILURE >>
             ELSE << LW_SUCCESS, PeekLineBox(rec, 2) >>
        ELSE << LW_FAILURE >>

\* The box gserialized_peek_gbox_p reads off the record, before it is rounded:
\* << LW_SUCCESS, box >> or << LW_FAILURE >>.
PeekedBox(rec) ==
    LET type  == gserialized_get_type(rec)
        flags == RecFlags(rec)
    IN  IF FLAGS_GET_GEODETIC(flags) = 1 \/ FLAGS_GET_BBOX(flags) = 1 THEN << LW_FAILURE >>
        ELSE IF type = POINTTYPE
        THEN IF PeekI(rec, 1) = 0 THEN << LW_FAILURE >>
             ELSE << LW_SUCCESS, PeekPointBox(rec, 1) >>
        ELSE IF type = LINETYPE
        THEN IF PeekI(rec, 1) # 2 THEN << LW_FAILURE >>
             ELSE << LW_SUCCESS, PeekLineBox(rec, 1) >>
        ELSE IF type = MULTIPOINTTYPE
        THEN IF PeekI(rec, 1) # 1 THEN << LW_FAILURE >>
             ELSE IF PeekI(rec, 3) # 1 THEN << LW_FAILURE >>
             ELSE << LW_SUCCESS, PeekPointBox(rec, 2) >>
        ELSE IF type = MULTILINETYPE
        THEN IF PeekI(rec, 1) # 1 THEN << LW_FAILURE >>
             ELSE IF PeekI(rec, 3) # 2 THEN << LW_FAILURE >>
             ELSE << LW_SUCCESS, PeekLineBox(rec, 2) >>
        ELSE << LW_FAILURE >>

\* A box that was found, rounded by gbox_float_round.
FloatRounded(ret) ==
    IF ret[1] = LW_SUCCESS THEN << LW_SUCCESS, gbox_float_round(ret[2]) >> ELSE << LW_FAILURE >>

\* gserialized_peek_gbox_p: << LW_SUCCESS, box >> or << LW_FAILURE >>.
gserialized_peek_gbox_p(rec) == FloatRounded(PeekedBox(rec))

\* The choice of gserialized_get_gbox_p among the box read, the box peeked and the
\* box calculated.
FirstBox(read, peek, ret) ==
    IF read[1] = LW_SUCCESS THEN read
    ELSE IF peek[1] = LW_SUCCESS THEN peek
    ELSE FloatRounded(ret)

\* gserialized_get_gbox_p: the stored box, else the peeked one, else the box
\* calculated from the decoded geometry and rounded to floats.
gserialized_get_gbox_p(rec) ==
    FirstBox(gserialized_read_gbox_p(rec), gserialized_peek_gbox_p(rec),
             lwgeom_calculate_gbox(lwgeom_from_gserialized(rec).geom))

(***************************************************************************)
(* gserialized_cmp.  A record is compared where it lies in memory: a slot  *)
(* is [rec, probe, tail], the record and what follows it in memory up to   *)
(* the word gserialized_cmp reads at g + 8, that is 8 * sizeof(GSERIALIZED)*)
(* bytes from the record's first byte.  tail is the 8-byte pattern that    *)
(* fills the memory between the record's end and that word, probe the 4    *)
(* bytes of the word.  What lies there is not the program's to choose.     *)
(***************************************************************************)
SizeofGSERIALIZED == 12

ProbeOffset == 8 * SizeofGSERIALIZED

\* The bytes of memory from the first byte of the slot's record on.
Memory(s) ==
    IF Len(s.rec) >= ProbeOffset + 4 THEN s.rec
    ELSE s.rec \o [i \in 1..(ProbeOffset - Len(s.rec)) |-> s.tail[((i - 1) % 8) + 1]] \o s.probe

\* memcmp(b1, b2, n) as a sign.
RECURSIVE memcmp(_, _, _)
memcmp(b1, b2, n) ==
    IF n = 0 THEN 0
    ELSE IF b1[1] < b2[1] THEN -1
    ELSE IF b1[1] > b2[1] THEN 1
    ELSE memcmp(Tail(b1), Tail(b2), n - 1)

\* The hash of the point fast path: the interleave of the float bits of 2.0 * dptr[0]
\* and 2.0 * dptr[1], dptr being g->data + sizeof(double).
FastHash(mem) ==
    uint32_interleave_2(D2F(DTimes2(Slice(mem, 16, 8))), D2F(DTimes2(Slice(mem, 24, 8))))

\* The end of gserialized_cmp: a proper prefix comes first, else the sign of memcmp.
PrefixCmp(bsz1, bsz2, c) ==
    IF bsz1 # bsz2 /\ c = 0 THEN (IF bsz1 < bsz2 THEN -1 ELSE 1)
    ELSE (IF c > 0 THEN 1 ELSE -1)

\* The comparison of two boxes in gserialized_cmp: by hash, then by the minima, then
\* by the maxima; when all tie the code falls through to the end, whose result is tie.
BoxCmp(box1, box2, hash, tie) ==
    IF U64Less(hash[2], hash[1]) THEN 1
    ELSE IF U64Less(hash[1], hash[2]) THEN -1
    ELSE IF DLess(box1.xmin, box2.xmin) THEN -1
    ELSE IF DLess(box2.xmin, box1.xmin) THEN 1
    ELSE IF DLess(box1.ymin, box2.ymin) THEN -1
    ELSE IF DLess(box2.ymin, box1.ymin) THEN 1
    ELSE IF DLess(box1.xmax, box2.xmax) THEN -1
    ELSE IF DLess(box2.xmax, box1.xmax) THEN 1
    ELSE IF DLess(box1.ymax, box2.ymax) THEN -1
    ELSE IF DLess(box2.ymax, box1.ymax) THEN 1
    ELSE tie

\* The ladder of gserialized_cmp: got[k] is what gserialized_get_gbox_p returned for
\* record k, c the memcmp of the bodies over the shorter length.
CmpLadder(bsz1, bsz2, cmp_srid, c, got) ==
    LET g1_is_empty == got[1][1] = LW_FAILURE
        g2_is_empty == got[2][1] = LW_FAILURE
    IN  IF g1_is_empty /\ ~g2_is_empty THEN -1
        ELSE IF ~g1_is_empty /\ g2_is_empty THEN 1
        ELSE IF bsz1 = bsz2 /\ cmp_srid = 0 /\ c = 0 THEN 0
        ELSE IF ~g1_is_empty /\ ~g2_is_empty
        THEN BoxCmp(got[1][2], got[2][2], [k \in 1..2 |-> gbox_get_sortable_hash(got[k][2])],
                    PrefixCmp(bsz1, bsz2, c))
        ELSE PrefixCmp(bsz1, bsz2, c)

\* gserialized_cmp after the fast path, on bodies of bsz1 and bsz2 bytes.
SlowCmpBodies(g1, g2, bsz1, bsz2) ==
    CmpLadder(bsz1, bsz2, gserialized_cmp_srid(g1, g2),
              memcmp(Slice(g1, gserialized_header_size(g1), Min2(bsz1, bsz2)),
                     Slice(g2, gserialized_header_size(g2), Min2(bsz1, bsz2)),
                     Min2(bsz1, bsz2)),
              [k \in 1..2 |-> gserialized_get_gbox_p(<< g1, g2 >>[k])])

\* gserialized_cmp after the fast path.
SlowCmp(g1, g2) ==
    SlowCmpBodies(g1, g2, RecSize(g1) - gserialized_header_size(g1),
                  RecSize(g2) - gserialized_header_size(g2))

\* The fast path of gserialized_cmp: fast is its guard, hash[k] the hash of record k.
FastCmp(g1, g2, fast, hash) ==
    IF fast /\ gserialized_cmp_srid(g1, g2) = 0 /\ U64Less(hash[2], hash[1]) THEN 1
    ELSE IF fast /\ gserialized_cmp_srid(g1, g2) = 0 /\ U64Less(hash[1], hash[2]) THEN -1
    ELSE SlowCmp(g1, g2)

\* The guard of the fast path of gserialized_cmp.
FastGuard(s1, s2) ==
    /\ RecSize(s1.rec) > 16
    /\ RecSize(s2.rec) > 16
    /\ FLAGS_GET_BBOX(RecFlags(s1.rec)) = 0
    /\ FLAGS_GET_BBOX(RecFlags(s2.rec)) = 0
    /\ Slice(Memory(s1), ProbeOffset, 4) = U32Bytes(POINTTYPE)
    /\ Slice(Memory(s2), ProbeOffset, 4) = U32Bytes(POINTTYPE)

\* gserialized_cmp(g1, g2) of the records of two slots.
gserialized_cmp(s1, s2) ==
    FastCmp(s1.rec, s2.rec, FastGuard(s1, s2),
            [k \in 1..2 |-> FastHash(Memory(<< s1, s2 >>[k]))])

(***************************************************************************)
(* The comparator on records in memory (specification SpecCmp).            *)
(***************************************************************************)
CmpMaxCount == 1

CmpTypes == {POINTTYPE, MULTIPOINTTYPE}

CmpSeeds == {8, 3}

CmpSrids == {SRID_UNKNOWN, 4326}

\* The records compared: what the encoder returns for 2D cartesian points (empty, at
\* (0, 0) and at (1 + 2^-30, 2), with and without a cached box) and multipoints
\* (without children, and of empty points), each with either SRID.
CmpRecords ==
    { gserialized_from_lwgeom(lwgeom_set_srid(Input(t, n, seed, 0, 0, cached), srid)).rec :
        t \in CmpTypes, n \in 0..CmpMaxCount, seed \in CmpSeeds, srid \in CmpSrids,
        cached \in BOOLEAN }

\* What may follow a record in memory: a word that reads as POINTTYPE after the
\* doubles 1.0 or 0.0, or zeroes throughout.
AfterImages ==
    { [probe |-> U32Bytes(POINTTYPE), tail |-> Samples[3]],
      [probe |-> U32Bytes(POINTTYPE), tail |-> Samples[1]],
      [probe |-> U32Bytes(0), tail |-> Samples[1]] }

ZeroAfter == [probe |-> U32Bytes(0), tail |-> Samples[1]]

\* gserialized_cmp reads past the end of this record when the other record lets it.
ReadsPast(rec) ==
    RecSize(rec) > 16 /\ FLAGS_GET_BBOX(RecFlags(rec)) = 0 /\ Len(rec) < ProbeOffset + 4

\* The slots: memory that gserialized_cmp never reads is left as zeroes (the word at
\* g + 8 is read of a record for which ReadsPast holds, the doubles before it of one
\* that ends before the second double of the fast path does).
LiveSlots ==
    { s \in [rec : CmpRecords, probe : { a.probe : a \in AfterImages },
             tail : { a.tail : a \in AfterImages }] :
        /\ [probe |-> s.probe, tail |-> s.tail] \in AfterImages
        /\ ~ReadsPast(s.rec) => s.probe = ZeroAfter.probe
        /\ ~(ReadsPast(s.rec) /\ Len(s.rec) < 32) => s.tail = ZeroAfter.tail }

InitCmp ==
    /\ pc = "records"
    /\ slot \in [{"a", "b", "c"} -> LiveSlots]
    /\ cmp = None
    /\ geom = None /\ enc = None /\ dec = None /\ enc2 = None
    /\ srec = None /\ sprev = None /\ sarg = 0 /\ sgot = None
    /\ ExtIdle

\* The pairs of records compared.
Pairs ==
    [ab |-> << "a", "b" >>, ba |-> << "b", "a" >>, bc |-> << "b", "c" >>,
     ac |-> << "a", "c" >>, aa |-> << "a", "a" >>]

\* gserialized_cmp on the pairs of the three records.
Compare ==
    /\ pc = "records"
    /\ cmp' = [p \in DOMAIN Pairs |-> gserialized_cmp(slot[Pairs[p][1]], slot[Pairs[p][2]])]
    /\ pc' = "compared"
    /\ UNCHANGED << slot, codecVars, sridVars, extVars >>

NextCmp == Compare

SpecCmp == InitCmp /\ [][NextCmp]_vars

\* The bytes of a record after its header (the stored box is part of the header).
Body(rec) == SubSeq(rec, gserialized_header_size(rec) + 1, Len(rec))

\* No box can be read, peeked or computed for the record.
IsEmptyRecord(rec) == gserialized_get_gbox_p(rec)[1] = LW_FAILURE

\* C1: compare is antisymmetric: compare(a, b) and compare(b, a) have opposite
\* signs (both 0, or one negative and one positive), also for records with the same
\* body and different SRIDs.
C1_Antisymmetric ==
    pc = "compared" =>
        \/ cmp.ab = 0 /\ cmp.ba = 0
        \/ cmp.ab < 0 /\ cmp.ba > 0
        \/ cmp.ab > 0 /\ cmp.ba < 0

\* C2: compare(a, b) = 0 exactly when a and b have the same SRID bytes and the
\* same body, and compare(a, a) = 0.
C2_ZeroIffEqual ==
    pc = "compared" =>
        /\ cmp.ab = 0 <=> /\ RecSridBytes(slot.a.rec) = RecSridBytes(slot.b.rec)
                          /\ Body(slot.a.rec) = Body(slot.b.rec)
        /\ cmp.aa = 0

\* C3: compare is transitive: compare(a, b) <= 0 and compare(b, c) <= 0 give
\* compare(a, c) <= 0.
C3_Transitive ==
    pc = "compared" => (cmp.ab <= 0 /\ cmp.bc <= 0 => cmp.ac <= 0)

\* C4: a record without any box sorts before a record with one: compare(a, b) = -1
\* and compare(b, a) = 1 whenever no box can be had for a and one can be had for b.
C4_EmptyFirst ==
    pc = "compared" /\ IsEmptyRecord(slot.a.rec) /\ ~IsEmptyRecord(slot.b.rec)
        => cmp.ab = -1 /\ cmp.ba = 1

(***************************************************************************)
(* Properties of clamp_srid (specification SpecSrid).                      *)
(***************************************************************************)
\* The values a sign-extended 21-bit field holds.
FitsSridField(v) == -1048576 <= v /\ v <= 1048575

\* C11: clamp_srid of the SRID written is SRID_UNKNOWN for a non-positive SRID, the
\* SRID itself in 1..SRID_MAXIMUM, and SRID_USER_MAXIMUM + 1 + (srid mod
\* (SRID_MAXIMUM - SRID_USER_MAXIMUM - 1)) above SRID_MAXIMUM; the result is
\* SRID_UNKNOWN or lies in 1..SRID_MAXIMUM, fits the 21-bit field, and clamping it
\* again changes nothing.
C11_ClampSrid ==
    sprev # None =>
        /\ sarg <= 0 => clamp_srid(sarg) = 0
        /\ 1 <= sarg /\ sarg <= 999999 => clamp_srid(sarg) = sarg
        /\ sarg > 999999 => clamp_srid(sarg) = 998999 + 1 + (sarg % (999999 - 998999 - 1))
        /\ clamp_srid(sarg) = 0 \/ (1 <= clamp_srid(sarg) /\ clamp_srid(sarg) <= 999999)
        /\ FitsSridField(clamp_srid(sarg))
        /\ clamp_srid(clamp_srid(sarg)) = clamp_srid(sarg)

\* The largest 32-bit SRID has been written and folds to 999280.
C11_Witness ==
    /\ pc = "written"
    /\ sarg = 2147483647
    /\ clamp_srid(sarg) = 999280
    /\ gserialized_get_srid(srec) = 999280

(***************************************************************************)
(* Properties of the stored box (specification Spec).                      *)
(***************************************************************************)
\* The axes of a box that are live under the flags: X and Y, Z for a geodetic box or
\* one with Z, M for a cartesian box with M.
LiveAxes(flags) ==
    { << "xmin", "xmax" >>, << "ymin", "ymax" >> }
    \cup (IF FLAGS_GET_GEODETIC(flags) = 1 \/ FLAGS_GET_Z(flags) = 1
          THEN { << "zmin", "zmax" >> } ELSE { })
    \cup (IF FLAGS_GET_GEODETIC(flags) = 0 /\ FLAGS_GET_M(flags) = 1
          THEN { << "mmin", "mmax" >> } ELSE { })

\* Box outer contains box inner on every live axis.
BoxContains(outer, inner, flags) ==
    \A ax \in LiveAxes(flags) :
        /\ DLessEq(outer[ax[1]], inner[ax[1]])
        /\ DLessEq(inner[ax[2]], outer[ax[2]])

\* Every coordinate of a cartesian tree lies inside the box.
CoordinatesInside(g, box) ==
    \A i \in 1..Len(GeomPointArrays(g)) :
        \A k \in 0..(FLAGS_NDIMS(g.flags) - 1) :
            LET lo == << "xmin", "ymin", IF FLAGS_GET_Z(g.flags) = 1 THEN "zmin" ELSE "mmin", "mmin" >>[k + 1]
                hi == << "xmax", "ymax", IF FLAGS_GET_Z(g.flags) = 1 THEN "zmax" ELSE "mmax", "mmax" >>[k + 1]
                os == PaOrdinates(GeomPointArrays(g)[i], k)
            IN  \A j \in 1..Len(os) : DLessEq(box[lo], os[j]) /\ DLessEq(os[j], box[hi])

\* C12: the box read back from the record of a geometry with a cached box B
\* contains B on every live axis: each stored minimum is at most B's, each stored
\* maximum at least B's; the coordinates of a cartesian geometry lie inside it.
C12_BoxContainment ==
    Encoded /\ geom.bbox # << >> /\ enc.rec # << >> =>
        /\ gserialized_read_gbox_p(enc.rec)[1] = LW_SUCCESS
        /\ BoxContains(gserialized_read_gbox_p(enc.rec)[2], geom.bbox[1], RecFlags(enc.rec))
        /\ FLAGS_GET_GEODETIC(geom.flags) = 0
              => CoordinatesInside(geom, gserialized_read_gbox_p(enc.rec)[2])

\* A cartesian geometry with Z and M whose cached box has a maximum and a minimum
\* that are not floats has been encoded: the stored box is strictly larger there.
C12_Witness ==
    /\ pc = "encoded"
    /\ geom.bbox # << >>
    /\ enc.rec # << >>
    /\ FLAGS_GET_ZM(geom.flags) = 3
    /\ FLAGS_GET_GEODETIC(geom.flags) = 0
    /\ \E ax \in LiveAxes(geom.flags) :
          /\ DLess(geom.bbox[1][ax[2]], gserialized_read_gbox_p(enc.rec)[2][ax[2]])
          /\ DLess(gserialized_read_gbox_p(enc.rec)[2][ax[1]], geom.bbox[1][ax[1]])

(***************************************************************************)
(* Peeking into a record (specification SpecPeek):                         *)
(* gserialized_peek_gbox_p, gserialized_get_gbox_p and                     *)
(* gserialized_peek_first_point on a record written from geom.             *)
(***************************************************************************)
\* A variant of gserialized1_copy_point that hands the third ordinate to z and the
\* fourth to m.
gserialized1_copy_point_zfirst(rec, dptr, flags) ==
    [x |-> Slice(rec, dptr, 8),
     y |-> Slice(rec, dptr + 8, 8),
     z |-> IF FLAGS_GET_Z(flags) = 1 \/ FLAGS_GET_M(flags) = 1 THEN Slice(rec, dptr + 16, 8) ELSE Unset,
     m |-> IF FLAGS_GET_Z(flags) = 1 /\ FLAGS_GET_M(flags) = 1 THEN Slice(rec, dptr + 24, 8) ELSE Unset]

\* gserialized1_copy_point: the ordinates copied out of the doubles at dptr; z and m
\* are left as they were (Unset) without their flag.
gserialized1_copy_point(rec, dptr, flags) ==
    [x |-> Slice(rec, dptr, 8),
     y |-> Slice(rec, dptr + 8, 8),
     z |-> IF FLAGS_GET_Z(flags) = 1 THEN Slice(rec, dptr + 16, 8) ELSE Unset,
     m |-> IF FLAGS_GET_M(flags) = 1
           THEN Slice(rec, dptr + 16 + 8 * FLAGS_GET_Z(flags), 8) ELSE Unset]

\* The rest of gserialized_peek_first_point, geometry_start being the offset of the
\* type word: [ret, point, errs].
FirstPointAt(rec, geometry_start) ==
    IF gserialized_get_uint32_t(rec, geometry_start + 4) = 0
    THEN [ret |-> LW_FAILURE, point |-> << >>, errs |-> << >>]
    ELSE IF gserialized_get_uint32_t(rec, geometry_start) = POINTTYPE
    THEN [ret |-> LW_SUCCESS,
          point |-> gserialized1_copy_point(rec, geometry_start + 8, RecFlags(rec)),
          errs |-> << >>]
    ELSE [ret |-> LW_FAILURE, point |-> << >>,
          errs |-> << "gserialized_peek_first_point is currently not implemented for type" >>]

gserialized_peek_first_point(rec) ==
    FirstPointAt(rec, 8 + (IF gserialized_has_bbox(rec) = 1 THEN gserialized1_box_size(rec) ELSE 0))

\* The geometry as a writer that stores no box hands it to the encoder.
Boxless(g) == [g EXCEPT !.bbox = << >>, !.flags = FLAGS_SET_BBOX(g.flags, 0)]

\* A MultiPoint or MultiLineString of a single member of k points; a geodetic one
\* arrives with its box.
SingleMember(type, k, seed, zm, geodetic) ==
    Arriving(Geom(type, zm + 8 * geodetic, SRID_UNKNOWN, << >>, << >>, << >>,
                  << Build(AllowedSeq(type)[1], k, seed, zm + 8 * geodetic) >>),
             geodetic, geodetic = 1)

\* The geometries whose records are peeked into: the inputs of the codec and the
\* collections of a single member.
PeekInputs ==
    ValidInputs
    \cup { SingleMember(t, k, seed, zm, geodetic) :
             t \in {MULTIPOINTTYPE, MULTILINETYPE}, k \in 0..MaxCount, seed \in 0..MaxSeed,
             zm \in 0..3, geodetic \in 0..1 }

\* The records peeked into: the record gserialized_from_lwgeom returns for an input,
\* and the record of the same geometry written without a box.
PeekRecords ==
    { gserialized_from_lwgeom(g) : g \in PeekInputs }
    \cup { SerializedBoxed(Boxless(g)) : g \in PeekInputs }

InitPeek ==
    /\ pc = "encoded"
    /\ enc \in PeekRecords
    /\ geom = enc.geom
    /\ dec = None /\ enc2 = None
    /\ srec = None /\ sprev = None /\ sarg = 0 /\ sgot = None
    /\ slot = None /\ cmp = None
    /\ ExtIdle

\* gserialized_peek_gbox_p(enc.rec, &box)
PeekGbox ==
    /\ pc = "encoded"
    /\ enc.rec # << >>
    /\ pkbox' = gserialized_peek_gbox_p(enc.rec)
    /\ pc' = "peeked"
    /\ UNCHANGED << gtbox, pkpoint, codecVars, sridVars, cmpVars, damageVars, handlerVars, truncVars, original >>

\* gserialized_get_gbox_p(enc.rec, &box), on a record whose box can be had without
\* the geodetic calculator.
GetGbox ==
    /\ pc = "encoded"
    /\ enc.rec # << >>
    /\ gserialized_has_bbox(enc.rec) = 1 \/ FLAGS_GET_GEODETIC(RecFlags(enc.rec)) = 0
    /\ gtbox' = gserialized_get_gbox_p(enc.rec)
    /\ pc' = "peeked"
    /\ UNCHANGED << pkbox, pkpoint, codecVars, sridVars, cmpVars, damageVars, handlerVars, truncVars, original >>

\* gserialized_peek_first_point(enc.rec, &out_point)
PeekFirstPoint ==
    /\ pc = "encoded"
    /\ enc.rec # << >>
    /\ pkpoint' = gserialized_peek_first_point(enc.rec)
    /\ pc' = "peeked"
    /\ UNCHANGED << pkbox, gtbox, codecVars, sridVars, cmpVars, damageVars, handlerVars, truncVars, original >>

NextPeek == PeekGbox \/ GetGbox \/ PeekFirstPoint

SpecPeek == InitPeek /\ [][NextPeek]_vars

\* The branch of gserialized_get_gbox_p that answers for the record: only the last
\* one creates an LWGEOM.
GetGboxBranch(rec) ==
    IF gserialized_read_gbox_p(rec)[1] = LW_SUCCESS THEN "read"
    ELSE IF gserialized_peek_gbox_p(rec)[1] = LW_SUCCESS THEN "peek"
    ELSE "decode"

\* The box the encoder stored for box B: every live minimum rounded down to a
\* float, every live maximum rounded up.
StoredBoxOf(B, got, flags) ==
    \A ax \in LiveAxes(flags) :
        /\ got[ax[1]] = F2D(next_float_down(B[ax[1]]))
        /\ got[ax[2]] = F2D(next_float_up(B[ax[2]]))

\* C13: gserialized_peek_gbox_p on a record that stores a box reads the stored box
\* and succeeds, whatever the kind of the geometry.
C13_PeekReadsStored ==
    pkbox # None /\ gserialized_has_bbox(enc.rec) = 1 =>
        /\ pkbox[1] = LW_SUCCESS
        /\ StoredBoxOf(geom.bbox[1], pkbox[2], RecFlags(enc.rec))

\* C13 as amended: on a record that stores a box, gserialized_get_gbox_p succeeds
\* with the stored box, whatever the kind of the geometry, from its first branch, so
\* without creating an LWGEOM; gserialized_peek_gbox_p alone returns LW_FAILURE there.
C13_GetReadsStored ==
    /\ gtbox # None /\ gserialized_has_bbox(enc.rec) = 1 =>
          /\ gtbox[1] = LW_SUCCESS
          /\ gtbox[2].flags = RecFlags(enc.rec)
          /\ StoredBoxOf(geom.bbox[1], gtbox[2], RecFlags(enc.rec))
          /\ GetGboxBranch(enc.rec) = "read"
    /\ pkbox # None /\ gserialized_has_bbox(enc.rec) = 1 => pkbox = << LW_FAILURE >>

\* gserialized_get_gbox_p has answered for the record of a line of two points with Z
\* that stores a box.
C13_Witness ==
    /\ pc = "peeked"
    /\ gtbox # None
    /\ gserialized_has_bbox(enc.rec) = 1
    /\ geom.type = LINETYPE
    /\ geom.pa[1].npoints = 2
    /\ FLAGS_GET_Z(geom.flags) = 1
    /\ gtbox[1] = LW_SUCCESS

\* The shapes of a LineString, a MultiPoint and a MultiLineString whose box can be
\* read off the record: a line of exactly two points, a multipoint of exactly one
\* point that is not empty, a multiline of exactly one line of two points.
PeekableShape(g) ==
    \/ g.type = LINETYPE /\ g.pa[1].npoints = 2
    \/ g.type = MULTIPOINTTYPE /\ Len(g.geoms) = 1 /\ g.geoms[1].pa[1].npoints = 1
    \/ g.type = MULTILINETYPE /\ Len(g.geoms) = 1 /\ g.geoms[1].pa[1].npoints = 2

\* C14: on a record with no stored box, gserialized_peek_gbox_p succeeds exactly for
\* a non-geodetic non-empty Point, a LineString of exactly 2 points, a MultiPoint of
\* exactly one non-empty Point and a MultiLineString of exactly one 2-point
\* LineString; for every other shape it returns LW_FAILURE and no box.
C14_PeekShapes ==
    pkbox # None /\ gserialized_has_bbox(enc.rec) = 0 =>
        /\ pkbox[1] = LW_SUCCESS <=>
              \/ /\ geom.type = POINTTYPE
                 /\ FLAGS_GET_GEODETIC(geom.flags) = 0
                 /\ geom.pa[1].npoints = 1
              \/ PeekableShape(geom)
        /\ pkbox[1] # LW_SUCCESS => pkbox = << LW_FAILURE >>

\* C14 as amended: on a record with no stored box, gserialized_peek_gbox_p succeeds
\* exactly for the non-geodetic records of a non-empty Point, a LineString of exactly
\* 2 points, a MultiPoint of exactly one non-empty Point and a MultiLineString of
\* exactly one 2-point LineString; for every other record, any geodetic one among
\* them, it returns LW_FAILURE and no box.
C14_PeekCartesianShapes ==
    pkbox # None /\ gserialized_has_bbox(enc.rec) = 0 =>
        /\ pkbox[1] = LW_SUCCESS <=>
              /\ FLAGS_GET_GEODETIC(geom.flags) = 0
              /\ \/ geom.type = POINTTYPE /\ geom.pa[1].npoints = 1
                 \/ PeekableShape(geom)
        /\ pkbox[1] # LW_SUCCESS => pkbox = << LW_FAILURE >>

\* gserialized_peek_gbox_p has failed on the record, without a box, of a multipoint
\* whose single point is empty.
C14_Witness ==
    /\ pc = "peeked"
    /\ pkbox = << LW_FAILURE >>
    /\ gserialized_has_bbox(enc.rec) = 0
    /\ FLAGS_GET_GEODETIC(geom.flags) = 0
    /\ geom.type = MULTIPOINTTYPE
    /\ Len(geom.geoms) = 1
    /\ geom.geoms[1].pa[1].npoints = 0

\* The box had by decoding the record in full, calculating the box of the
\* coordinates and rounding it to floats: << LW_SUCCESS, box >> or << LW_FAILURE >>.
DecodedBox(rec) == FloatRounded(lwgeom_calculate_gbox(lwgeom_from_gserialized(rec).geom))

\* C15: whenever gserialized_peek_gbox_p succeeds on a record, the box it returns
\* equals, on X and Y and on Z and M when flagged, the box had by decoding the
\* record in full, calculating the box of the coordinates and rounding it to floats.
C15_PeekConsistency ==
    pkbox # None /\ pkbox[1] = LW_SUCCESS =>
        /\ DecodedBox(enc.rec)[1] = LW_SUCCESS
        /\ pkbox[2].flags = RecFlags(enc.rec)
        /\ \A ax \in LiveAxes(RecFlags(enc.rec)) :
              /\ pkbox[2][ax[1]] = DecodedBox(enc.rec)[2][ax[1]]
              /\ pkbox[2][ax[2]] = DecodedBox(enc.rec)[2][ax[2]]

\* gserialized_peek_gbox_p has succeeded on a multiline with Z and M of one line
\* whose two points differ in an ordinate that is not a float.
C15_Witness ==
    /\ pc = "peeked"
    /\ pkbox # None
    /\ pkbox[1] = LW_SUCCESS
    /\ geom.type = MULTILINETYPE
    /\ FLAGS_GET_ZM(geom.flags) = 3
    /\ \E ax \in LiveAxes(geom.flags) :
          /\ DLess(pkbox[2][ax[1]], pkbox[2][ax[2]])
          /\ \E k \in 0..3 : DLess(pkbox[2][ax[1]], PaOrdinates(geom.geoms[1].pa[1], k)[1])

\* C16: gserialized_peek_first_point succeeds exactly on the record of a Point that
\* is not empty; on success x, y, and z and m when flagged, are the point's
\* ordinates in their order, with or without a stored box: for a point with M and
\* no Z the third ordinate is returned as m.
C16_PeekFirstPoint ==
    pkpoint # None =>
        /\ pkpoint.ret = LW_SUCCESS <=> geom.type = POINTTYPE /\ geom.pa[1].npoints = 1
        /\ pkpoint.ret # LW_SUCCESS => pkpoint.ret = LW_FAILURE /\ pkpoint.point = << >>
        /\ pkpoint.ret = LW_SUCCESS =>
              /\ pkpoint.point.x = Slice(geom.pa[1].list, 0, 8)
              /\ pkpoint.point.y = Slice(geom.pa[1].list, 8, 8)
              /\ FLAGS_GET_Z(geom.flags) = 1 => pkpoint.point.z = Slice(geom.pa[1].list, 16, 8)
              /\ FLAGS_GET_ZM(geom.flags) = 3 => pkpoint.point.m = Slice(geom.pa[1].list, 24, 8)
              /\ FLAGS_GET_ZM(geom.flags) = 1 => pkpoint.point.m = Slice(geom.pa[1].list, 16, 8)

\* gserialized_peek_first_point has succeeded on the record, with a stored box, of a
\* point with M and no Z whose three ordinates differ.
C16_Witness ==
    /\ pc = "peeked"
    /\ pkpoint # None
    /\ pkpoint.ret = LW_SUCCESS
    /\ gserialized_has_bbox(enc.rec) = 1
    /\ FLAGS_GET_ZM(geom.flags) = 1
    /\ pkpoint.point.m # pkpoint.point.x
    /\ pkpoint.point.m # pkpoint.point.y
    /\ pkpoint.point.z = Unset

(***************************************************************************)
(* Decoding a damaged record (specification SpecDamage).  The decoder is   *)
(* followed step by step: every word it reads of the record, every view    *)
(* it creates over the record, every lwalloc, lwfree and lwerror call, in   *)
(* the order of the code.  An event names its operation, what it is about, *)
(* the record offset of the word that made it and a length in bytes.       *)
(***************************************************************************)
Ev(op, what, at, len) == [op |-> op, what |-> what, at |-> at, len |-> len, in |-> 0]

\* What a reader did: its events, the value stored through g_size and whether it
\* returned NULL.
Traced(log, size, null) == [log |-> log, size |-> size, null |-> null]

\* The events of the point, line, triangle and circular string readers; borrowed
\* is the number of points the view covers for the count stored.
LeafTrace(what, rec, data_ptr, g_flags, borrowed) ==
    LET npoints == gserialized_get_uint32_t(rec, data_ptr + 4)
    IN  Traced(<< Ev("lwalloc", what, data_ptr, 0),
                  Ev("read", "npoints", data_ptr + 4, 4),
                  Ev("lwalloc", "POINTARRAY", data_ptr + 4, 0) >>
               \o (IF npoints > 0
                   THEN << Ev("view", "ordinates", data_ptr + 8,
                              borrowed * FLAGS_NDIMS(g_flags) * 8) >>
                   ELSE << >>),
               8 + FLAGS_NDIMS(g_flags) * npoints * 8, FALSE)

RECURSIVE PolyRingsTrace(_, _, _, _, _, _)
\* The events of the loop of lwpoly_from_gserialized_buffer from ring i on; size is
\* the final ordinate_ptr.
PolyRingsTrace(rec, g_flags, nrings, i, data_ptr, ordinate_ptr) ==
    IF i >= nrings THEN Traced(<< >>, ordinate_ptr, FALSE)
    ELSE LET npoints == gserialized_get_uint32_t(rec, data_ptr)
             rest    == PolyRingsTrace(rec, g_flags, nrings, i + 1, data_ptr + 4,
                                       ordinate_ptr + 8 * FLAGS_NDIMS(g_flags) * npoints)
         IN  Traced(<< Ev("read", "npoints", data_ptr, 4),
                       Ev("lwalloc", "POINTARRAY", data_ptr, 0),
                       Ev("view", "ordinates", ordinate_ptr,
                          npoints * FLAGS_NDIMS(g_flags) * 8) >> \o rest.log,
                    rest.size, FALSE)

PolyTrace(rec, start_ptr, g_flags) ==
    LET nrings   == gserialized_get_uint32_t(rec, start_ptr + 4)
        data_ptr == start_ptr + 8
        first    == IF nrings > 0
                    THEN data_ptr + nrings * 4 + (IF nrings % 2 = 1 THEN 4 ELSE 0)
                    ELSE data_ptr
        loop     == PolyRingsTrace(rec, g_flags, nrings, 0, data_ptr, first)
    IN  Traced(<< Ev("lwalloc", "LWPOLY", start_ptr, 0),
                  Ev("read", "nrings", start_ptr + 4, 4) >>
               \o (IF nrings > 0 THEN << Ev("lwalloc", "rings", start_ptr + 4, 0) >> ELSE << >>)
               \o loop.log,
               loop.size - start_ptr, FALSE)

RECURSIVE BufferTrace(_, _, _)
RECURSIVE CollectionGeomsTrace(_, _, _, _, _, _)
\* The events of the loop of lwcollection_from_gserialized_buffer from child i on;
\* size is the final data_ptr, null tells that a subtype was refused.  The read of
\* a child's type tag carries the type of the collection in its field `in`.
CollectionGeomsTrace(rec, type, g_flags, ngeoms, i, data_ptr) ==
    IF i >= ngeoms THEN Traced(<< >>, data_ptr, FALSE)
    ELSE LET subtype == gserialized_get_uint32_t(rec, data_ptr)
             read    == [Ev("read", "subtype", data_ptr, 4) EXCEPT !.in = type]
         IN  IF ~lwcollection_allows_subtype(type, subtype)
             THEN Traced(<< read, Ev("lwerror", "Invalid subtype for collection type",
                                     data_ptr, 0) >>,
                         data_ptr, TRUE)
             ELSE LET sub  == BufferTrace(rec, data_ptr, g_flags)
                      rest == CollectionGeomsTrace(rec, type, g_flags, ngeoms, i + 1,
                                                   data_ptr + sub.size)
                  IN  Traced(<< read >> \o sub.log \o rest.log, rest.size, rest.null)

CollectionTrace(rec, start_ptr, g_flags) ==
    LET type   == gserialized_get_uint32_t(rec, start_ptr)
        ngeoms == gserialized_get_uint32_t(rec, start_ptr + 4)
        loop   == CollectionGeomsTrace(rec, type, FLAGS_SET_BBOX(g_flags, 0), ngeoms, 0,
                                       start_ptr + 8)
        head   == << Ev("read", "type", start_ptr, 4),
                     Ev("lwalloc", "LWCOLLECTION", start_ptr, 0),
                     Ev("read", "ngeoms", start_ptr + 4, 4) >>
                  \o (IF ngeoms > 0 THEN << Ev("lwalloc", "geoms", start_ptr + 4, 0) >>
                      ELSE << >>)
    IN  IF loop.null
        THEN Traced(head \o loop.log \o << Ev("lwfree", "LWCOLLECTION", start_ptr, 0) >>,
                    0, TRUE)
        ELSE Traced(head \o loop.log, loop.size - start_ptr, FALSE)

BufferTrace(rec, data_ptr, g_flags) ==
    LET type == gserialized_get_uint32_t(rec, data_ptr)
        body == CASE type = POINTTYPE -> LeafTrace("LWPOINT", rec, data_ptr, g_flags, 1)
                  [] type = LINETYPE ->
                        LeafTrace("LWLINE", rec, data_ptr, g_flags,
                                  gserialized_get_uint32_t(rec, data_ptr + 4))
                  [] type = CIRCSTRINGTYPE ->
                        LeafTrace("LWCIRCSTRING", rec, data_ptr, g_flags,
                                  gserialized_get_uint32_t(rec, data_ptr + 4))
                  [] type = TRIANGLETYPE ->
                        LeafTrace("LWTRIANGLE", rec, data_ptr, g_flags,
                                  gserialized_get_uint32_t(rec, data_ptr + 4))
                  [] type = POLYGONTYPE -> PolyTrace(rec, data_ptr, g_flags)
                  [] type \in CollectionTypes -> CollectionTrace(rec, data_ptr, g_flags)
                  [] OTHER -> Traced(<< Ev("lwerror", "Unknown geometry type", data_ptr, 0) >>,
                                     0, TRUE)
    IN  Traced(<< Ev("read", "type", data_ptr, 4) >> \o body.log, body.size, body.null)

\* The events of lwgeom_from_gserialized while the error handler returns: the type
\* read, the body built, then the error report for a NULL or the stored box read
\* and copied.  (The records decoded here store a box whenever the geometry needs
\* one, so that no box is calculated.)
Trace(rec) ==
    LET hasbox == FLAGS_GET_BBOX(RecFlags(rec)) = 1
        start  == 8 + (IF hasbox THEN gbox_serialized_size(RecFlags(rec)) ELSE 0)
        built  == BufferTrace(rec, start, RecFlags(rec))
    IN  << Ev("read", "type", start, 4) >> \o built.log
        \o (IF built.null
            THEN << Ev("lwerror", "lwgeom_from_gserialized: unable create geometry", 0, 0) >>
            ELSE IF hasbox
            THEN << Ev("read", "bbox", 8, gbox_serialized_size(RecFlags(rec))),
                    Ev("lwalloc", "GBOX", 8, 0) >>
            ELSE << >>)

\* The index of the first lwerror call of a log, 0 when it has none.
FirstError(log) ==
    IF \E i \in 1..Len(log) : log[i].op = "lwerror"
    THEN CHOOSE i \in 1..Len(log) :
            log[i].op = "lwerror" /\ \A j \in 1..(i - 1) : log[j].op # "lwerror"
    ELSE 0

\* lwgeom_from_gserialized on a memory image, with an error handler that returns
\* to its caller or one that does not (default_errorreporter exits): the geometry
\* returned, the errors reported and the events.
Ran(img, decoded, log) ==
    IF img.handler = "exits" /\ FirstError(log) > 0
    THEN [geom |-> NullGeom, errs |-> SubSeq(decoded.errs, 1, 1),
          log |-> SubSeq(log, 1, FirstError(log))]
    ELSE [geom |-> decoded.geom, errs |-> decoded.errs, log |-> log]

(***************************************************************************)
(* The damaged records.  A record the encoder returned is cut short, its   *)
(* size word rewritten, and is followed in memory by what the allocator    *)
(* left there: the bytes cut off, or zeroes.  Or the type tag of a child   *)
(* of a collection is overwritten by a tag the collection refuses.         *)
(***************************************************************************)
DamageMaxCount == 2

DamageSeeds == {0, 1, 4}

DamageRecords ==
    { gserialized_from_lwgeom(Input(t, n, seed, zm, 0, FALSE)).rec :
        t \in 1..15, n \in 1..DamageMaxCount, seed \in DamageSeeds, zm \in {0, 3} }

Zeros(n) == [i \in 1..n |-> 0]

\* The first `size` bytes of rec as a record of that size, and what follows them.
Truncated(rec, size, after) ==
    U32Bytes(size * 4) \o Slice(rec, 4, size - 4)
    \o (IF after = "stale" THEN Slice(rec, size, Len(rec) - size) ELSE Zeros(Len(rec) - size))

\* The sizes a record is cut to: the multiples of 8 from the header on.
Cuts(rec) == { 8 * k : k \in 1..((Len(rec) \div 8) - 1) }

\* rec with the word at offset `at` overwritten by tag.
Retagged(rec, at, tag) ==
    Slice(rec, 0, at) \o U32Bytes(tag) \o Slice(rec, at + 4, Len(rec) - at - 4)

\* The reads of a child's type tag the decoder makes on rec.
SubtypeReads(rec) ==
    LET log == Trace(rec) IN { log[i] : i \in { j \in 1..Len(log) : log[j].what = "subtype" } }

\* The tags a collection of the given type refuses, unknown ones included.
RefusedTags(type) == { t \in 0..(TINTYPE + 1) : ~lwcollection_allows_subtype(type, t) }

Handlers == {"returns", "exits"}

DamageImages ==
    UNION { { [mem |-> Truncated(r, c, after), size |-> c, damage |-> "truncated",
               handler |-> h] : c \in Cuts(r), after \in {"stale", "zeroed"}, h \in Handlers }
            \cup UNION { { [mem |-> Retagged(r, e.at, t), size |-> Len(r),
                            damage |-> "subtype", handler |-> h] :
                             t \in RefusedTags(e.in), h \in Handlers } :
                         e \in SubtypeReads(r) } :
            r \in DamageRecords }

InitDamage ==
    /\ pc = "image"
    /\ image \in DamageImages
    /\ run = None
    /\ geom = None /\ enc = None /\ dec = None /\ enc2 = None
    /\ srec = None /\ sprev = None /\ sarg = 0 /\ sgot = None
    /\ slot = None /\ cmp = None
    /\ PeekIdle /\ HandlersIdle /\ TruncIdle /\ original = None

\* lwgeom_from_gserialized on the record at the start of the image.
DecodeDamaged ==
    /\ pc = "image"
    /\ run' = Ran(image, lwgeom_from_gserialized(image.mem), Trace(image.mem))
    /\ pc' = "damaged"
    /\ UNCHANGED << image, codecVars, sridVars, cmpVars, peekVars, handlerVars, truncVars, original >>

NextDamage == DecodeDamaged

SpecDamage == InitDamage /\ [][NextDamage]_vars

\* The error calls of the events are the errors the decoder reported.
TraceAgrees ==
    pc = "damaged" =>
        LET errors == { i \in 1..Len(run.log) : run.log[i].op = "lwerror" }
        IN  Cardinality(errors) = Len(run.errs)

\* C17: decoding a record that was cut short reports an error, and reads or views
\* no byte at an offset at or beyond the size of the record.
C17_BoundsChecked ==
    (pc = "damaged" /\ image.damage = "truncated") =>
        /\ FirstError(run.log) > 0
        /\ \A i \in 1..Len(run.log) :
              (run.log[i].op \in {"read", "view"} /\ run.log[i].len > 0)
                  => run.log[i].at + run.log[i].len <= image.size

\* The allocations of a log before event k that no lwfree before event k released.
HeldBefore(log, k) ==
    { i \in 1..(k - 1) :
        /\ log[i].op = "lwalloc"
        /\ ~\E j \in (i + 1)..(k - 1) :
               log[j].op = "lwfree" /\ log[j].what = log[i].what /\ log[j].at = log[i].at }

\* C18: when decode fails on the type tag of a collection child, everything allocated
\* for the half-built tree has been freed by the time the error is reported.
C18_ReleasedBeforeError ==
    (pc = "damaged" /\ FirstError(run.log) > 0) =>
        HeldBefore(run.log, FirstError(run.log)) = {}

(***************************************************************************)
(* Encoding a geometry of mixed dimensions (specification SpecMixed).      *)
(* The inputs are geometries in which one part, the point array of a leaf, *)
(* a ring of a polygon or a child of a collection, was built with Z/M      *)
(* flags of its own.  They arrive with the box of the geometry drawn, so   *)
(* that the encoder calculates none; a ring never has fewer ordinates per  *)
(* point than its polygon, so that the encoder copies no byte from beyond  *)
(* the ring.                                                               *)
(***************************************************************************)
MixedMaxCount == 2

MixedSeeds == {0, 1, 5}

\* Build(type, n, seed, zm) with its box, part k of it taken from the geometry
\* built with the flags zm2.
Mixed(type, n, seed, zm, zm2, k) ==
    LET g == lwgeom_add_bbox(Build(type, n, seed, zm))
        h == Build(type, n, seed, zm2)
    IN  IF type \in LeafTypes THEN [g EXCEPT !.pa = h.pa]
        ELSE IF type = POLYGONTYPE
        THEN [g EXCEPT !.rings = [i \in 1..Len(g.rings) |->
                                     IF i = k THEN h.rings[i] ELSE g.rings[i]]]
        ELSE [g EXCEPT !.geoms = [i \in 1..Len(g.geoms) |->
                                     IF i = k THEN h.geoms[i] ELSE g.geoms[i]]]

MixedInputs ==
    { Mixed(p[1], n, seed, p[2], p[3], k) :
        p \in { q \in (1..15) \X (0..3) \X (0..3) :
                  q[1] = POLYGONTYPE => FLAGS_NDIMS(q[3]) >= FLAGS_NDIMS(q[2]) },
        n \in 0..MixedMaxCount, seed \in MixedSeeds, k \in 1..MixedMaxCount }

InitMixed ==
    /\ pc = "input"
    /\ geom \in MixedInputs
    /\ enc = None /\ dec = None /\ enc2 = None
    /\ srec = None /\ sprev = None /\ sarg = 0 /\ sgot = None
    /\ slot = None /\ cmp = None
    /\ ExtIdle

NextMixed == Encode

SpecMixed == InitMixed /\ [][NextMixed]_vars

RECURSIVE Mismatched(_)
\* The Z or the M flag of a point array of g differs from that of the geometry
\* holding it, or that of a child from that of its collection.
Mismatched(g) ==
    IF g.type \in LeafTypes THEN FLAGS_GET_ZM(g.pa[1].flags) # FLAGS_GET_ZM(g.flags)
    ELSE IF g.type = POLYGONTYPE
    THEN \E i \in 1..Len(g.rings) : FLAGS_GET_ZM(g.rings[i].flags) # FLAGS_GET_ZM(g.flags)
    ELSE \E i \in 1..Len(g.geoms) :
            FLAGS_GET_ZM(g.geoms[i].flags) # FLAGS_GET_ZM(g.flags) \/ Mismatched(g.geoms[i])

DimensionErrors ==
    { "Dimensions mismatch in lwpoint", "Dimensions mismatch in lwline",
      "Dimensions mismatch in lwpoly", "Dimensions mismatch in lwtriangle",
      "Dimensions mismatch in lwcircstring", "Dimensions mismatch in lwcollection" }

\* C19: encoding a geometry of mixed dimensions reports a dimension-mismatch error
\* and returns no record.
C19_DimensionMismatch ==
    (pc = "encoded" /\ Mismatched(geom)) =>
        /\ \E i \in 1..Len(enc.errs) : enc.errs[i] \in DimensionErrors
        /\ enc.rec = << >>

(***************************************************************************)
(* The handlers of lwutil.c (specification SpecHandlers).  A handler is    *)
(* named by a string: the five defaults, NULL for a null pointer, and the  *)
(* functions a program supplies.  The n-th call of lwgeom_set_handlers     *)
(* supplies, for each handler, NULL or the n-th custom function.           *)
(***************************************************************************)
MaxCalls == 2

NULL == "NULL"

CustomNames == << "custom1", "custom2", "custom3", "custom4" >>

\* The handler variables as lwutil.c initializes them.
DefaultHandlers ==
    [lwalloc_var |-> "default_allocator", lwrealloc_var |-> "default_reallocator",
     lwfree_var |-> "default_freeor", lwnotice_var |-> "default_noticereporter",
     lwerror_var |-> "default_errorreporter"]

\* A variant of lwgeom_set_handlers that assigns the freeor whatever it is.
lwgeom_set_handlers_always(h, allocator, reallocator, freeor, errorreporter, noticereporter) ==
    [lwalloc_var   |-> IF allocator # NULL THEN allocator ELSE h.lwalloc_var,
     lwrealloc_var |-> IF reallocator # NULL THEN reallocator ELSE h.lwrealloc_var,
     lwfree_var    |-> freeor,
     lwerror_var   |-> IF errorreporter # NULL THEN errorreporter ELSE h.lwerror_var,
     lwnotice_var  |-> IF noticereporter # NULL THEN noticereporter ELSE h.lwnotice_var]

\* lwgeom_set_handlers: the handler variables h after the call.
lwgeom_set_handlers(h, allocator, reallocator, freeor, errorreporter, noticereporter) ==
    [lwalloc_var   |-> IF allocator # NULL THEN allocator ELSE h.lwalloc_var,
     lwrealloc_var |-> IF reallocator # NULL THEN reallocator ELSE h.lwrealloc_var,
     lwfree_var    |-> IF freeor # NULL THEN freeor ELSE h.lwfree_var,
     lwerror_var   |-> IF errorreporter # NULL THEN errorreporter ELSE h.lwerror_var,
     lwnotice_var  |-> IF noticereporter # NULL THEN noticereporter ELSE h.lwnotice_var]

\* The function each entry point calls, given the handler variables h.
lwalloc(h) == h.lwalloc_var

lwrealloc(h) == h.lwrealloc_var

lwfree(h) == h.lwfree_var

lwerror(h) == h.lwerror_var

lwnotice(h) == h.lwnotice_var

EntryPoints == {"lwalloc", "lwrealloc", "lwfree", "lwerror", "lwnotice"}

\* The arguments of a call: each NULL or the custom function fn.
Arguments(fn) ==
    [{"allocator", "reallocator", "freeor", "errorreporter", "noticereporter"} -> {NULL, fn}]

InitHandlers ==
    /\ pc = "handlers"
    /\ handlers = DefaultHandlers
    /\ supplied = << >>
    /\ called = None
    /\ geom = None /\ enc = None /\ dec = None /\ enc2 = None
    /\ srec = None /\ sprev = None /\ sarg = 0 /\ sgot = None
    /\ slot = None /\ cmp = None
    /\ PeekIdle /\ DamageIdle /\ TruncIdle /\ original = None

\* lwgeom_set_handlers(allocator, reallocator, freeor, errorreporter, noticereporter)
SetHandlers ==
    /\ pc = "handlers"
    /\ Len(supplied) < MaxCalls
    /\ \E a \in Arguments(CustomNames[Len(supplied) + 1]) :
          /\ handlers' = lwgeom_set_handlers(handlers, a.allocator, a.reallocator, a.freeor,
                                             a.errorreporter, a.noticereporter)
          /\ supplied' = Append(supplied, a)
    /\ UNCHANGED << pc, called, codecVars, sridVars, cmpVars, peekVars, damageVars, truncVars, original >>

\* A call of lwalloc, lwrealloc, lwfree, lwerror or lwnotice: the function that
\* received it, and how many calls of lwgeom_set_handlers came before.
Dispatch ==
    /\ pc = "handlers"
    /\ \E fn \in EntryPoints :
          called' = [fn |-> fn, after |-> Len(supplied),
                     to |-> CASE fn = "lwalloc" -> lwalloc(handlers)
                              [] fn = "lwrealloc" -> lwrealloc(handlers)
                              [] fn = "lwfree" -> lwfree(handlers)
                              [] fn = "lwerror" -> lwerror(handlers)
                              [] fn = "lwnotice" -> lwnotice(handlers)]
    /\ UNCHANGED << pc, handlers, supplied, codecVars, sridVars, cmpVars, peekVars, damageVars, truncVars, original >>

NextHandlers == SetHandlers \/ Dispatch

SpecHandlers == InitHandlers /\ [][NextHandlers]_vars

\* The argument of lwgeom_set_handlers that goes with a handler variable.
ArgumentOf ==
    [lwalloc_var |-> "allocator", lwrealloc_var |-> "reallocator", lwfree_var |-> "freeor",
     lwerror_var |-> "errorreporter", lwnotice_var |-> "noticereporter"]

\* The handler variable an entry point calls through.
VariableOf ==
    [lwalloc |-> "lwalloc_var", lwrealloc |-> "lwrealloc_var", lwfree |-> "lwfree_var",
     lwerror |-> "lwerror_var", lwnotice |-> "lwnotice_var"]

\* The last non-NULL value among the first n calls' arguments for the variable v,
\* the default when there is none.
LastSupplied(v, n) ==
    LET given == { i \in 1..n : supplied[i][ArgumentOf[v]] # NULL }
    IN  IF given = {} THEN DefaultHandlers[v]
        ELSE supplied[CHOOSE i \in given : \A j \in given : j <= i][ArgumentOf[v]]

\* Every handler is the last non-NULL value supplied for it, and the last call
\* dispatched went to the handler current when it was made.
HandlersCurrent ==
    pc = "handlers" =>
        /\ \A v \in DOMAIN handlers : handlers[v] = LastSupplied(v, Len(supplied))
        /\ called # None => called.to = LastSupplied(VariableOf[called.fn], called.after)

\* A step changes exactly the handlers for which the call it makes of
\* lwgeom_set_handlers has a non-NULL argument.
HandlersFrame ==
    \A v \in DOMAIN DefaultHandlers :
        handlers'[v] # handlers[v] =>
            /\ Len(supplied') = Len(supplied) + 1
            /\ supplied'[Len(supplied')][ArgumentOf[v]] # NULL
            /\ handlers'[v] = supplied'[Len(supplied')][ArgumentOf[v]]

\* C20: lwgeom_set_handlers changes exactly the handlers whose argument is non-NULL;
\* each handler is the last non-NULL value supplied for it, or the default; and
\* lwalloc, lwrealloc, lwfree, lwerror and lwnotice go to the current handler.
C20_Handlers == [](HandlersCurrent) /\ [][pc = "handlers" => HandlersFrame]_vars

\* After two calls, the second with a NULL allocator and a new error reporter, the
\* allocator is the first call's, the freeor the default, and lwerror goes to the
\* second call's reporter.
C20_Witness ==
    /\ pc = "handlers" /\ Len(supplied) = 2
    /\ supplied[1].allocator = "custom1" /\ supplied[1].errorreporter = "custom1"
    /\ supplied[2].allocator = NULL /\ supplied[2].errorreporter = "custom2"
    /\ supplied[1].freeor = NULL /\ supplied[2].freeor = NULL
    /\ handlers.lwalloc_var = "custom1" /\ handlers.lwfree_var = "default_freeor"
    /\ called # None /\ called.fn = "lwerror" /\ called.after = 2 /\ called.to = "custom2"

(***************************************************************************)
(* lwmessage_truncate (specification SpecTruncate).  A C string is the     *)
(* sequence of its characters before the terminator.  The output buffer is *)
(* followed as [str, extent]: the string it holds and the number of its    *)
(* bytes written so far, terminator included.                              *)
(***************************************************************************)
\* strncat(dest, src, n): at most n characters of src appended, and a terminator.
strncat(dest, src, n) ==
    LET str == dest.str \o SubSeq(src, 1, Min2(n, Len(src)))
    IN  [str |-> str, extent |-> Max2(dest.extent, Len(str) + 1)]

\* The C string that starts at str + pos.
StrAt(str, pos) == SubSeq(str, pos + 1, Len(str))

Dots == << ".", ".", "." >>

\* A variant of lwmessage_truncate that leaves no room for the dots it adds.
lwmessage_truncate_full(str, startpos, endpos, maxlength, truncdirection) ==
    LET output == [str |-> << >>, extent |-> 1]
        whole  == strncat(output, StrAt(str, startpos), endpos - startpos + 1)
    IN  IF truncdirection = 0
        THEN IF endpos - startpos < maxlength THEN whole
             ELSE IF maxlength >= 3
             THEN strncat(strncat(output, Dots, 4),
                          StrAt(str, endpos + 1 - maxlength + 3), maxlength)
             ELSE strncat(output, Dots, 4)
        ELSE IF truncdirection = 1
        THEN IF endpos - startpos < maxlength THEN whole
             ELSE IF maxlength >= 3
             THEN strncat(strncat(output, StrAt(str, startpos), maxlength), Dots, 4)
             ELSE strncat(output, Dots, 4)
        ELSE output

\* lwmessage_truncate: the buffer returned, of maxlength + 4 bytes.
lwmessage_truncate(str, startpos, endpos, maxlength, truncdirection) ==
    LET output == [str |-> << >>, extent |-> 1]
        whole  == strncat(output, StrAt(str, startpos), endpos - startpos + 1)
    IN  IF truncdirection = 0
        THEN IF endpos - startpos < maxlength THEN whole
             ELSE IF maxlength >= 3
             THEN strncat(strncat(output, Dots, 4),
                          StrAt(str, endpos + 1 - maxlength + 3), maxlength - 3)
             ELSE strncat(output, Dots, 4)
        ELSE IF truncdirection = 1
        THEN IF endpos - startpos < maxlength THEN whole
             ELSE IF maxlength >= 3
             THEN strncat(strncat(output, StrAt(str, startpos), maxlength - 3), Dots, 4)
             ELSE strncat(output, Dots, 4)
        ELSE output

MaxStrLen == 5

MaxMaxlength == 6

Letters == << "a", "b", "c", "d", "e", "f", "g", "h" >>

\* The calls made: a string of 1 to MaxStrLen letters, a range within it, a
\* maxlength and a truncation direction.
TruncateCalls ==
    { [str |-> SubSeq(Letters, 1, r[1]), startpos |-> r[2], endpos |-> r[3],
       maxlength |-> maxlength, truncdirection |-> truncdirection] :
        r \in { q \in (1..MaxStrLen) \X (0..MaxStrLen) \X (0..MaxStrLen) :
                  q[2] <= q[3] /\ q[3] < q[1] },
        maxlength \in 0..MaxMaxlength, truncdirection \in 0..1 }

InitTruncate ==
    /\ pc = "message"
    /\ msg \in TruncateCalls
    /\ trunc = None
    /\ geom = None /\ enc = None /\ dec = None /\ enc2 = None
    /\ srec = None /\ sprev = None /\ sarg = 0 /\ sgot = None
    /\ slot = None /\ cmp = None
    /\ PeekIdle /\ DamageIdle /\ HandlersIdle /\ original = None

\* lwmessage_truncate(str, startpos, endpos, maxlength, truncdirection)
Truncate ==
    /\ pc = "message"
    /\ trunc' = lwmessage_truncate(msg.str, msg.startpos, msg.endpos, msg.maxlength,
                                   msg.truncdirection)
    /\ pc' = "truncated"
    /\ UNCHANGED << msg, codecVars, sridVars, cmpVars, peekVars, damageVars, handlerVars, original >>

NextTruncate == Truncate

SpecTruncate == InitTruncate /\ [][NextTruncate]_vars

\* The range startpos..endpos holds more than maxlength characters: the call
\* shortens it.
Shortens(m) == m.endpos - m.startpos >= m.maxlength

EarlyReturn(s1, s2) ==
    /\ FastGuard(s1, s2)
    /\ gserialized_cmp_srid(s1.rec, s2.rec) = 0
    /\ FastHash(Memory(s1)) # FastHash(Memory(s2))

\* The record is a non-empty Point without a stored box, and the bytes the fast path
\* reads of it, the word of its guard and the two doubles it hashes, lie inside it.
FastPathRecord(rec) ==
    /\ gserialized_get_type(rec) = POINTTYPE
    /\ gserialized_has_bbox(rec) = 0
    /\ gserialized_get_uint32_t(rec, 12) > 0
    /\ Len(rec) >= 32
    /\ Len(rec) >= ProbeOffset + 4

\* C22: compare returns early on the hashes only for two non-empty Points without a
\* stored box and with equal SRID bytes, the type being the word at byte offset 8
\* of each record, and every byte the fast path reads lies inside the record.
C22_FastPathGuard ==
    pc = "compared" =>
        \A p \in DOMAIN Pairs :
            EarlyReturn(slot[Pairs[p][1]], slot[Pairs[p][2]]) =>
                /\ FastPathRecord(slot[Pairs[p][1]].rec)
                /\ FastPathRecord(slot[Pairs[p][2]].rec)
                /\ RecSridBytes(slot[Pairs[p][1]].rec) = RecSridBytes(slot[Pairs[p][2]].rec)

\* The sign of the byte-wise comparison of two byte strings over their common
\* length: that of the first byte that differs, 0 when none does.
BytewiseSign(b1, b2) ==
    LET differ == { i \in 1..Min2(Len(b1), Len(b2)) : b1[i] # b2[i] }
        first  == CHOOSE i \in differ : \A j \in differ : i <= j
    IN  IF differ = {} THEN 0 ELSE IF b1[first] < b2[first] THEN -1 ELSE 1

\* b1 is b2 cut short.
ProperPrefix(b1, b2) == Len(b1) < Len(b2) /\ SubSeq(b2, 1, Len(b1)) = b1

\* The order of two bodies: a proper prefix first, else the byte-wise sign.
BodyOrder(b1, b2) ==
    IF ProperPrefix(b1, b2) THEN -1
    ELSE IF ProperPrefix(b2, b1) THEN 1
    ELSE BytewiseSign(b1, b2)

\* The order of two boxes by the first key that differs: the hash, then xmin, ymin,
\* xmax, ymax; 0 when all five tie.
KeyOrder(box1, box2) ==
    LET hash1  == gbox_get_sortable_hash(box1)
        hash2  == gbox_get_sortable_hash(box2)
        less   == << U64Less(hash1, hash2), DLess(box1.xmin, box2.xmin),
                     DLess(box1.ymin, box2.ymin), DLess(box1.xmax, box2.xmax),
                     DLess(box1.ymax, box2.ymax) >>
        more   == << U64Less(hash2, hash1), DLess(box2.xmin, box1.xmin),
                     DLess(box2.ymin, box1.ymin), DLess(box2.xmax, box1.xmax),
                     DLess(box2.ymax, box1.ymax) >>
        differ == { k \in 1..5 : less[k] \/ more[k] }
        first  == CHOOSE k \in differ : \A j \in differ : k <= j
    IN  IF differ = {} THEN 0 ELSE IF less[first] THEN -1 ELSE 1

\* What the slow path is to return for two records that are both empty or both not.
SlowOrder(r1, r2) ==
    LET got1 == gserialized_get_gbox_p(r1)
        got2 == gserialized_get_gbox_p(r2)
        keys == IF got1[1] = LW_FAILURE THEN 0 ELSE KeyOrder(got1[2], got2[2])
    IN  IF keys # 0 THEN keys ELSE BodyOrder(Body(r1), Body(r2))

\* The pair of slots is one the slow path decides and the claim covers: no early
\* return, both records empty or both not, and a different SRID or body.
SlowDecides(s1, s2) ==
    /\ ~EarlyReturn(s1, s2)
    /\ IsEmptyRecord(s1.rec) = IsEmptyRecord(s2.rec)
    /\ RecSridBytes(s1.rec) # RecSridBytes(s2.rec) \/ Body(s1.rec) # Body(s2.rec)

\* C23: for two records that differ in SRID or body, the slow path of compare
\* returns the order of the first key that differs, hash, xmin, ymin, xmax, ymax;
\* when all tie or both records are empty, a proper prefix comes first, and
\* otherwise the result is the sign of the byte-wise comparison of the bodies.
C23_SlowPathOrder ==
    pc = "compared" =>
        \A p \in DOMAIN Pairs :
            SlowDecides(slot[Pairs[p][1]], slot[Pairs[p][2]]) =>
                cmp[p] = SlowOrder(slot[Pairs[p][1]].rec, slot[Pairs[p][2]].rec)

(***************************************************************************)
(* Encoding a geometry whose bbox flag does not tell whether it has a box  *)
(* (specification SpecStale).  The inputs are those of Spec, and each of   *)
(* them with its bbox flag bit inverted.                                   *)
(***************************************************************************)
StaleInputs ==
    ValidInputs
    \cup { [g EXCEPT !.flags = FLAGS_SET_BBOX(g.flags, 1 - FLAGS_GET_BBOX(g.flags))] :
             g \in ValidInputs }

InitStale ==
    /\ pc = "input"
    /\ geom \in StaleInputs
    /\ original = geom
    /\ enc = None /\ dec = None /\ enc2 = None
    /\ srec = None /\ sprev = None /\ sarg = 0 /\ sgot = None
    /\ slot = None /\ cmp = None
    /\ PeekIdle /\ DamageIdle /\ HandlersIdle /\ TruncIdle

NextStale == Encode

SpecStale == InitStale /\ [][NextStale]_vars

\* The number of bytes of a record between its 8-byte header and the body of g.
BoxBytes(rec, g) == Len(rec) - 8 - Len(gserialized_from_lwgeom_any(g, 8).bytes)

\* The geometry had a cached box, or is of a kind that needs one and is not empty.
HadOrNeedsBox(g) == g.bbox # << >> \/ (lwgeom_needs_bbox(g) /\ ~lwgeom_is_empty(g))

\* C24: in a record encode returns, the bbox flag is set exactly when box bytes
\* follow the header, and that exactly when the geometry had a cached box or needs
\* one and is not empty, whatever the bbox flag of the input; a 2D point without a
\* cached box takes 32 bytes, an empty point 16.
C24_BboxFlag ==
    (pc = "encoded" /\ enc.rec # << >>) =>
        LET n == BoxBytes(enc.rec, original)
        IN  /\ FLAGS_GET_BBOX(RecFlags(enc.rec)) = 1 <=> n > 0
            /\ n > 0 <=> HadOrNeedsBox(original)
            /\ n > 0 => n = gbox_serialized_size(RecFlags(enc.rec))
            /\ (original.type = POINTTYPE /\ original.bbox = << >>) =>
                  /\ original.pa[1].npoints = 0 => Len(enc.rec) = 16
                  /\ (original.pa[1].npoints = 1 /\ FLAGS_NDIMS(original.flags) = 2)
                        => Len(enc.rec) = 32

\* A 2D point without a box, its bbox flag set, was encoded in 32 bytes with the
\* flag clear.
C24_Witness ==
    /\ pc = "encoded"
    /\ original.type = POINTTYPE /\ original.bbox = << >>
    /\ FLAGS_GET_BBOX(original.flags) = 1 /\ FLAGS_NDIMS(original.flags) = 2
    /\ original.pa[1].npoints = 1
    /\ Len(enc.rec) = 32 /\ FLAGS_GET_BBOX(RecFlags(enc.rec)) = 0
    /\ gserialized_get_type(enc.rec) = POINTTYPE

(***************************************************************************)
(* The boxes of a decoded tree (specification Spec).                       *)
(***************************************************************************)
RECURSIVE BelowUnboxed(_)
\* Every geometry below g, at any depth, has its bbox flag clear and no box.
BelowUnboxed(g) ==
    \A i \in 1..Len(g.geoms) :
        /\ FLAGS_GET_BBOX(g.geoms[i].flags) = 0
        /\ g.geoms[i].bbox = << >>
        /\ BelowUnboxed(g.geoms[i])

\* The box of the root of the tree decoded from rec: the stored one, else the one
\* calculated for a geometry that needs one, else none.
RootBox(rec, root) ==
    IF gserialized_has_bbox(rec) = 1 THEN << gserialized_read_gbox_p(rec)[2] >>
    ELSE IF lwgeom_needs_bbox(root) /\ lwgeom_calculate_gbox(root)[1] = LW_SUCCESS
    THEN << lwgeom_calculate_gbox(root)[2] >>
    ELSE << >>

\* C25: in a tree decode returns, every geometry below the root has its bbox flag
\* clear and no box, whatever the flag byte of the record; the root has the flag
\* byte of the record and the stored or calculated box.
C25_ChildrenUnboxed ==
    (Decoded /\ dec.geom # NullGeom) =>
        /\ BelowUnboxed(dec.geom)
        /\ dec.geom.flags = RecFlags(enc.rec)
        /\ dec.geom.bbox = RootBox(enc.rec, dec.geom)

\* A record with a stored box was decoded, of a geometry in which a child of a child
\* had a box of its own: the root has a box, that grandchild has none.
C25_Witness ==
    /\ pc = "decoded"
    /\ gserialized_has_bbox(enc.rec) = 1
    /\ dec.geom.bbox # << >>
    /\ \E i \in 1..Len(dec.geom.geoms) :
          \E j \in 1..Len(dec.geom.geoms[i].geoms) :
              /\ geom.geoms[i].geoms[j].bbox # << >>
              /\ dec.geom.geoms[i].geoms[j].bbox = << >>
              /\ FLAGS_GET_BBOX(dec.geom.geoms[i].geoms[j].flags) = 0
=============================================================================
